---- MODULE Spec2Model ----
(***************************************************************************)
(* A model of the symforce geometry kernel: the Camera viewport, the       *)
(* ATANCameraCal helper IsApprox, the flat-vector StorageOps and the Pose3 *)
(* Lie-group operations.                                                   *)
(*                                                                         *)
(* Scalar values (C++ double/float) are modelled as dyadic rationals       *)
(* m / 2^e with exact +, - and *, plus one non-finite element NaN.  The    *)
(* library functions sqrt, sin, cos, acos and the division operator return *)
(* their result rounded to the 1/16 grid, so they are deterministic        *)
(* functions of their arguments but carry no algebraic law.                *)
(***************************************************************************)
EXTENDS Integers, Sequences, FiniteSets, TLC

VARIABLES
    calibration_,   \* Camera::calibration_  (camera.h:87)
    image_size_,    \* Camera::image_size_   (camera.h:88)
    cam,            \* the last Camera call: operation, arguments, return value
    is_valid,       \* the caller's validity cell that `is_valid` points to
    approx,         \* the last ATANCameraCal::IsApprox call
    the_vec,            \* the caller's std::vector<double> handed to ToStorage
    out,            \* the caller's outputs_2_t handed to FromStorage
    sto,            \* the last StorageOps call
    lie,            \* the last pose3::LieGroupOps call
    outputs_1,      \* the caller's outputs_1_t handed to CodegenMultiFunctionTest1
    gen,            \* the last CodegenMultiFunctionTest1 call
    thr,            \* the threads calling into one Camera concurrently
    pose2,          \* the last sym::Pose2 call
    lcm             \* the last states_t encode or decode call

vars == <<calibration_, image_size_, cam, is_valid, approx, the_vec, out, sto, lie,
          outputs_1, gen, thr, pose2, lcm>>

-----------------------------------------------------------------------------
(* Bounds of the model *)

MaxPix == 2
MaxSize == 2
MaxLen == 2
MaxHalf == 1

-----------------------------------------------------------------------------
(* Scalar arithmetic *)

NaN == [m |-> 0, e |-> -1]

IsNaN(x) == x.e < 0

RECURSIVE Reduce(_, _)
Reduce(m, e) ==
    IF m = 0 THEN [m |-> 0, e |-> 0]
    ELSE IF e > 0 /\ m % 2 = 0 THEN Reduce(m \div 2, e - 1)
    ELSE [m |-> m, e |-> e]

\* the Scalar n / 2^e
Dy(n, e) == Reduce(n, e)

\* an integer literal, or an int converted to Scalar
R(n) == [m |-> n, e |-> 0]

MaxInt(i, j) == IF i < j THEN j ELSE i

Add(x, y) ==
    IF IsNaN(x) \/ IsNaN(y) THEN NaN
    ELSE LET E == MaxInt(x.e, y.e)
         IN  Reduce(x.m * 2^(E - x.e) + y.m * 2^(E - y.e), E)

Neg(x) == IF IsNaN(x) THEN NaN ELSE [m |-> 0 - x.m, e |-> x.e]

Sub(x, y) == Add(x, Neg(y))

Mul(x, y) ==
    IF IsNaN(x) \/ IsNaN(y) THEN NaN
    ELSE Reduce(x.m * y.m, x.e + y.e)

\* x < y; false when either side is NaN, as in IEEE 754
Less(x, y) ==
    /\ ~IsNaN(x)
    /\ ~IsNaN(y)
    /\ LET E == MaxInt(x.e, y.e)
       IN  x.m * 2^(E - x.e) < y.m * 2^(E - y.e)

\* x == y on Scalars
Equal(x, y) == ~IsNaN(x) /\ ~IsNaN(y) /\ x = y

Leq(x, y) == Less(x, y) \/ Equal(x, y)

Geq(x, y) == Leq(y, x)

x ++ y == Add(x, y)
x -- y == Sub(x, y)
x ** y == Mul(x, y)

Zero == R(0)
One == R(1)
Half == Dy(1, 1)

\* the grid step of the library functions' results
Ulp == Dy(1, 4)

\* floor(x / Ulp) as an integer
ToGrid(x) ==
    IF x.e <= Ulp.e THEN x.m * 2^(Ulp.e - x.e) ELSE x.m \div 2^(x.e - Ulp.e)

\* x / Ulp rounded to the nearest integer
NearestGrid(x) == ToGrid(Add(x, Dy(1, Ulp.e + 1)))

RECURSIVE ISqrtIn(_, _, _)
\* the r in lo .. hi-1 with r*r <= n < (r+1)*(r+1)
ISqrtIn(n, lo, hi) ==
    IF hi - lo <= 1 THEN lo
    ELSE LET mid == (lo + hi) \div 2
         IN  IF mid * mid <= n THEN ISqrtIn(n, mid, hi) ELSE ISqrtIn(n, lo, mid)

\* std::sqrt: NaN below zero, else the root rounded down to the grid
Sqrt(x) ==
    IF IsNaN(x) \/ x.m < 0 THEN NaN
    ELSE LET n == IF x.e <= 2 * Ulp.e THEN x.m * 2^(2 * Ulp.e - x.e)
                  ELSE x.m \div 2^(x.e - 2 * Ulp.e)
         IN  Dy(ISqrtIn(n, 0, 46340), Ulp.e)

\* operator/ : non-finite for a zero divisor, else the quotient rounded down to
\* the grid
Div(x, y) ==
    IF IsNaN(x) \/ IsNaN(y) \/ y.m = 0 THEN NaN
    ELSE LET num == x.m * 2^y.e * 2^Ulp.e
             den == y.m * 2^x.e
         IN  IF den > 0 THEN Dy(num \div den, Ulp.e)
             ELSE Dy((0 - num) \div (0 - den), Ulp.e)

x // y == Div(x, y)

SinTable ==
    <<0, 1, 2, 3, 4, 5, 6, 7, 8, 9, 9, 10, 11, 12, 12, 13, 13, 14, 14, 15,
      15, 15, 16, 16, 16, 16, 16, 16, 16, 16, 15, 15, 15, 14, 14, 13, 12,
      12, 11, 10, 10, 9, 8, 7, 6, 5, 4, 3, 2, 1, 0, -1, -2, -3, -4, -5, -6,
      -7, -7, -8, -9, -10, -11, -11, -12, -13, -13, -14, -14, -15, -15, -15,
      -16, -16, -16, -16, -16, -16, -16, -16, -15, -15, -15, -14, -14, -13,
      -13, -12, -11, -11, -10, -9, -8, -7, -6, -5, -4, -4, -3, -2, -1>>

CosTable ==
    <<16, 16, 16, 16, 16, 15, 15, 14, 14, 14, 13, 12, 12, 11, 10, 9, 9, 8,
      7, 6, 5, 4, 3, 2, 1, 0, -1, -2, -3, -4, -5, -6, -7, -8, -8, -9, -10,
      -11, -12, -12, -13, -13, -14, -14, -15, -15, -15, -16, -16, -16, -16,
      -16, -16, -16, -16, -15, -15, -15, -14, -14, -13, -13, -12, -11, -10,
      -10, -9, -8, -7, -6, -5, -4, -3, -2, -1, 0, 1, 2, 3, 4, 5, 5, 6, 7, 8,
      9, 10, 11, 11, 12, 13, 13, 14, 14, 15, 15, 15, 16, 16, 16, 16>>

AcosTable ==
    <<50, 45, 42, 40, 39, 37, 36, 35, 34, 32, 31, 30, 29, 28, 27, 26, 25,
      24, 23, 22, 21, 20, 19, 18, 17, 16, 14, 13, 12, 10, 8, 6, 0>>

\* std::sin and std::cos at the nearest grid point, with period 101/16
Sin(x) == IF IsNaN(x) THEN NaN ELSE Dy(SinTable[(NearestGrid(x) % 101) + 1], Ulp.e)

Cos(x) == IF IsNaN(x) THEN NaN ELSE Dy(CosTable[(NearestGrid(x) % 101) + 1], Ulp.e)

\* std::acos: NaN outside [-1, 1]
Acos(x) ==
    IF IsNaN(x) \/ Less(x, R(-1)) \/ Less(R(1), x) THEN NaN
    ELSE Dy(AcosTable[NearestGrid(x) + 17], Ulp.e)

\* std::max<Scalar>(a, b) and std::min<Scalar>(a, b)
Max(a, b) == IF Less(a, b) THEN b ELSE a

Min(a, b) == IF Less(b, a) THEN b ELSE a

-----------------------------------------------------------------------------
(* cam::Camera *)

\* what a calibration may report through is_valid
CalValidity == {0, 1}

HalfPixels == {Dy(k, 1) : k \in -1 .. 2 * MaxPix}

Pixels == {<<c, R(0)>> : c \in HalfPixels}
            \cup {<<R(0), c>> : c \in HalfPixels}
            \cup {<<c, c>> : c \in HalfPixels}
            \cup {<<R(700), R(10)>>, <<R(639), R(0)>>, <<Dy(1279, 1), R(0)>>,
                  <<R(639), R(480)>>, <<NaN, R(0)>>}

ImageSizes == {<<-1, -1>>, <<0, MaxSize>>, <<MaxSize, 0>>, <<MaxSize, MaxSize - 1>>,
               <<640, 480>>}

DefaultImageSize == <<-1, -1>>

Calibrations == {<<R(1), R(1), R(0), R(0), Dy(1, 1)>>, <<R(2), R(3), R(1), R(1), R(1)>>}

\* Camera::InView, x < bound written for <= (an off-by-one slip)
InViewStrict(pixel, image_size) ==
    LET x_in_view == Geq(pixel[1], R(0)) /\ Less(pixel[1], R(image_size[1] - 1))
        y_in_view == Geq(pixel[2], R(0)) /\ Less(pixel[2], R(image_size[2] - 1))
    IN  IF x_in_view /\ y_in_view THEN One ELSE Zero

InView(pixel, image_size) ==
    LET x_in_view == Geq(pixel[1], R(0)) /\ Leq(pixel[1], R(image_size[1] - 1))
        y_in_view == Geq(pixel[2], R(0)) /\ Leq(pixel[2], R(image_size[2] - 1))
    IN  IF x_in_view /\ y_in_view THEN One ELSE Zero

\* Camera::MaybeCheckInView with && written for ||
MaybeCheckInViewAnd(size, pixel) ==
    IF size[1] <= 0 /\ size[2] <= 0 THEN One ELSE InView(pixel, size)

MaybeCheckInView(size, pixel) ==
    IF size[1] <= 0 \/ size[2] <= 0 THEN One ELSE InView(pixel, size)

\* the statement `*is_valid *= MaybeCheckInView(pixel)` written as an assignment
ComposeValidityAssign(size, cal_valid, pixel) == MaybeCheckInView(size, pixel)

\* the value `*is_valid` holds after `*is_valid *= MaybeCheckInView(pixel)`,
\* when the calibration left cal_valid in it
ComposeValidity(size, cal_valid, pixel) ==
    R(cal_valid) ** MaybeCheckInView(size, pixel)

NoCall == [op |-> "none"]

\* a default-constructed Camera, and a caller's validity cell not yet written
InitCamera ==
    /\ calibration_ = <<R(1), R(1), R(0), R(0), Dy(1, 1)>>
    /\ image_size_ = DefaultImageSize
    /\ cam = NoCall
    /\ is_valid = R(7)

\* an empty std::vector<double> and a value-initialised outputs_2_t
InitStorage ==
    /\ the_vec = <<>>
    /\ out = [foo |-> R(0)]
    /\ outputs_1 = <<R(0), R(0)>>
    /\ sto = NoCall

\* nothing called yet on the generated function, the threads, Pose2, states_t
InitOthers ==
    /\ gen = NoCall
    /\ thr = NoCall
    /\ pose2 = NoCall
    /\ lcm = NoCall

Init ==
    /\ InitCamera
    /\ InitStorage
    /\ InitOthers
    /\ approx = NoCall
    /\ lie = NoCall

notCamera == <<approx, the_vec, out, sto, lie, outputs_1, gen, thr, pose2, lcm>>

\* Camera(calibration, image_size = (-1, -1))
Construct(calibration, image_size) ==
    /\ calibration_' = calibration
    /\ image_size_' = image_size
    /\ cam' = NoCall
    /\ is_valid' = R(7)
    /\ UNCHANGED notCamera

\* the body shared by PixelFromCameraPoint and CameraRayFromPixel, but with a
\* result the image bounds reject replaced by zeros
DelegateZeroingInvalid(size, pixel, computed, cal_valid, null, cell) ==
    [ret |-> IF ~null /\ ComposeValidity(size, cal_valid, pixel) = Zero
             THEN [i \in DOMAIN computed |-> Zero] ELSE computed,
     is_valid |-> IF null THEN cell ELSE ComposeValidity(size, cal_valid, pixel),
     checked |-> ~null]

\* the body shared by PixelFromCameraPoint and CameraRayFromPixel (camera.h:34-38
\* and 53-57): `computed` is what the calibration returned, `cell` the scalar
\* is_valid points to when it is not null; the in-frame check runs, and the
\* pointer is dereferenced, only under `is_valid != nullptr`
Delegate(size, pixel, computed, cal_valid, null, cell) ==
    [ret |-> computed,
     is_valid |-> IF null THEN cell ELSE ComposeValidity(size, cal_valid, pixel),
     checked |-> ~null]

\* Camera::PixelFromCameraPoint: the calibration returns cal_pixel and, when
\* is_valid is not null, stores cal_valid in it
PixelFromCameraPoint(cal_pixel, cal_valid, null) ==
    LET r == Delegate(image_size_, cal_pixel, cal_pixel, cal_valid, null, is_valid)
    IN  /\ cam' = [op |-> "PixelFromCameraPoint", pixel |-> cal_pixel,
                   cal_valid |-> cal_valid, null |-> null, computed |-> cal_pixel,
                   cell |-> is_valid, checked |-> r.checked, ret |-> r.ret]
        /\ is_valid' = r.is_valid
        /\ UNCHANGED <<calibration_, image_size_>>
        /\ UNCHANGED notCamera

\* the camera rays a calibration returns, as opaque tokens
Rays == {<<R(1), Dy(-1, 1), R(1)>>}

CameraRayFromPixel(pixel, cal_ray, cal_valid, null) ==
    LET r == Delegate(image_size_, pixel, cal_ray, cal_valid, null, is_valid)
    IN  /\ cam' = [op |-> "CameraRayFromPixel", pixel |-> pixel,
                   cal_valid |-> cal_valid, null |-> null, computed |-> cal_ray,
                   cell |-> is_valid, checked |-> r.checked, ret |-> r.ret]
        /\ is_valid' = r.is_valid
        /\ UNCHANGED <<calibration_, image_size_>>
        /\ UNCHANGED notCamera

CallMaybeCheckInView(pixel) ==
    /\ cam' = [op |-> "MaybeCheckInView", pixel |-> pixel,
               ret |-> MaybeCheckInView(image_size_, pixel)]
    /\ UNCHANGED <<calibration_, image_size_, is_valid>>
    /\ UNCHANGED notCamera

CallInView(pixel, image_size) ==
    /\ cam' = [op |-> "InView", pixel |-> pixel, image_size |-> image_size,
               ret |-> InView(pixel, image_size)]
    /\ UNCHANGED <<calibration_, image_size_, is_valid>>
    /\ UNCHANGED notCamera

Next ==
    \/ \E c \in Calibrations, s \in ImageSizes : Construct(c, s)
    \/ \E p \in Pixels, v \in CalValidity, n \in BOOLEAN : PixelFromCameraPoint(p, v, n)
    \/ \E p \in Pixels, r \in Rays, v \in CalValidity, n \in BOOLEAN :
          CameraRayFromPixel(p, r, v, n)
    \/ \E p \in Pixels : CallMaybeCheckInView(p)
    \/ \E p \in Pixels, s \in ImageSizes : CallInView(p, s)

Spec == Init /\ [][Next]_vars

-----------------------------------------------------------------------------
(* Claims about cam::Camera, checked under Spec *)

\* lo <= x <= hi for a Scalar x and ints lo, hi, on the representation of x
Within(x, lo, hi) == ~IsNaN(x) /\ lo * 2^x.e <= x.m /\ x.m <= hi * 2^x.e

InFrame(pixel, size) ==
    Within(pixel[1], 0, size[1] - 1) /\ Within(pixel[2], 0, size[2] - 1)

Bounded(size) == size[1] > 0 /\ size[2] > 0

Delegating == {"PixelFromCameraPoint", "CameraRayFromPixel"}

\* C1: Camera::InView(pixel, image_size) returns 1 exactly when
\* 0 <= pixel.x <= width-1 and 0 <= pixel.y <= height-1 and 0 otherwise, for
\* every positive image size; with (640,480), pixel (700,10) gives 0 and pixel
\* (639,0) gives 1.
C1_InViewIffInFrame ==
    (cam.op = "InView" /\ Bounded(cam.image_size)) =>
        /\ cam.ret \in {Zero, One}
        /\ cam.ret = One <=> InFrame(cam.pixel, cam.image_size)
        /\ (cam.image_size = <<640, 480>> /\ cam.pixel = <<R(700), R(10)>>) => cam.ret = Zero
        /\ (cam.image_size = <<640, 480>> /\ cam.pixel = <<R(639), R(0)>>) => cam.ret = One

C1_Witness ==
    /\ cam.op = "InView"
    /\ cam.image_size = <<640, 480>>
    /\ cam.pixel = <<R(639), R(0)>>
    /\ cam.ret = One

\* C2: the validity a Camera reports is the product of the calibration's
\* validity and the in-frame check (of the computed pixel for
\* PixelFromCameraPoint, of the given pixel for CameraRayFromPixel): it is 1
\* only when both stages report 1 and 0 whenever either reports 0.
C2_ValidityIsProduct ==
    (cam.op \in Delegating /\ ~cam.null) =>
        /\ is_valid \in {Zero, One}
        /\ is_valid = One <=>
              /\ cam.cal_valid = 1
              /\ Bounded(image_size_) => InFrame(cam.pixel, image_size_)
        /\ cam.op = "PixelFromCameraPoint" => cam.pixel = cam.ret

C2_Witness ==
    /\ cam.op = "CameraRayFromPixel"
    /\ ~cam.null
    /\ cam.cal_valid = 1
    /\ Bounded(image_size_)
    /\ ~InFrame(cam.pixel, image_size_)
    /\ is_valid = Zero

\* C14: PixelFromCameraPoint and CameraRayFromPixel return exactly the pixel or
\* ray the calibration computed, whether the validity they leave is 1 or 0; and
\* with a null validity output the in-frame check is skipped, the caller's
\* scalar is not touched, and the same value is returned.
C14_InvalidityKeepsResult ==
    cam.op \in Delegating =>
        /\ cam.ret = cam.computed
        /\ cam.null => (~cam.checked /\ is_valid = cam.cell)

\* a projection that leaves the 640x480 frame: validity 0, the pixel returned
C14_Witness ==
    /\ cam.op = "PixelFromCameraPoint"
    /\ ~cam.null
    /\ image_size_ = <<640, 480>>
    /\ cam.cal_valid = 1
    /\ is_valid = Zero
    /\ cam.ret = <<R(700), R(10)>>

\* C3: with a non-positive width or height (the default (-1,-1) included)
\* MaybeCheckInView returns 1 for every pixel and the Camera reports exactly the
\* calibration's validity; the in-frame check is applied only when both width
\* and height are positive.
C3_UnboundedNeverZeroes ==
    /\ ~Bounded(image_size_) =>
          /\ cam.op = "MaybeCheckInView" => cam.ret = One
          /\ (cam.op \in Delegating /\ ~cam.null) => is_valid = R(cam.cal_valid)
    /\ (Bounded(image_size_) /\ cam.op = "MaybeCheckInView") =>
          (cam.ret = One <=> InFrame(cam.pixel, image_size_))

C3_Witness ==
    /\ image_size_ = <<0, MaxSize>>
    /\ cam.op = "PixelFromCameraPoint"
    /\ ~cam.null
    /\ cam.pixel = <<Dy(-1, 1), R(0)>>
    /\ cam.cal_valid = 1
    /\ is_valid = One

-----------------------------------------------------------------------------
(* cam::ATANCameraCal::IsApprox *)

DataDim == 5

ZeroData == [i \in 1 .. DataDim |-> Zero]

RECURSIVE SumSquares(_, _)
SumSquares(d, n) == IF n = 0 THEN Zero ELSE SumSquares(d, n - 1) ++ (d[n] ** d[n])

\* Eigen's squaredNorm() and norm()
SquaredNorm(d) == SumSquares(d, Len(d))

Norm(d) == Sqrt(SquaredNorm(d))

\* b.Data() == DataVec::Zero()
IsZeroData(b) == \A i \in 1 .. Len(b) : Equal(b[i], Zero)

\* Eigen's DenseBase::isApprox:  |a - b|^2 <= tol^2 * min(|a|^2, |b|^2)
EigenIsApprox(a, b, tol) ==
    Leq(SquaredNorm([i \in 1 .. Len(a) |-> a[i] -- b[i]]),
        (tol ** tol) ** Min(SquaredNorm(a), SquaredNorm(b)))

IsApprox(a, b, tol) ==
    IF IsZeroData(b) THEN Less(Norm(a), tol) ELSE EigenIsApprox(a, b, tol)

ApproxCoords == {Dy(k, 1) : k \in -MaxHalf .. MaxHalf} \cup {R(3), R(4)}

ApproxData == {<<x, y, Zero, Zero, z>> : x \in ApproxCoords, y \in ApproxCoords,
                                         z \in ApproxCoords}

ApproxOthers == {ZeroData, <<R(3), R(4), Zero, Zero, Zero>>,
                 <<Half, Zero, Zero, Zero, Zero>>}

Tolerances == {Zero, Ulp, Half, R(5), R(6)}

\* the arguments of one call a.IsApprox(b, tol), drawn before the call
InitApprox ==
    /\ InitCamera
    /\ InitStorage
    /\ InitOthers
    /\ lie = NoCall
    /\ \E a \in ApproxData, b \in ApproxOthers, tol \in Tolerances :
          approx = [op |-> "pending", a |-> a, b |-> b, tol |-> tol, ret |-> FALSE]

CallIsApprox ==
    /\ approx.op = "pending"
    /\ approx' = [approx EXCEPT !.op = "IsApprox",
                                !.ret = IsApprox(approx.a, approx.b, approx.tol)]
    /\ UNCHANGED <<calibration_, image_size_, cam, is_valid, the_vec, out, sto, lie,
                   outputs_1, gen, thr, pose2, lcm>>

NextApprox == CallIsApprox

SpecApprox == InitApprox /\ [][NextApprox]_vars

\* C4: when b's storage is exactly zero, IsApprox(a, b, tol) is "approximately
\* equal" exactly when the norm of a does not exceed tol (norm(a) <= tol, the
\* case norm(a) == tol included) and "not approximately equal" when it does.
\* The norm is compared through its square, tol being non-negative here.
C4_ZeroCaseNormAtMostTol ==
    (approx.op = "IsApprox" /\ approx.b = ZeroData) =>
        (approx.ret <=> Leq(SquaredNorm(approx.a), approx.tol ** approx.tol))

\* the boundary norm(a) == tol is reached: a = (3,4,0,0,0), b = 0, tol = 5
C4_Boundary ==
    /\ approx.op = "IsApprox"
    /\ approx.a = <<R(3), R(4), Zero, Zero, Zero>>
    /\ approx.b = ZeroData
    /\ approx.tol = R(5)
    /\ approx.ret = FALSE

-----------------------------------------------------------------------------
(* StorageOps of outputs_2_t and of ATANCameraCal *)

StorageDim_outputs_2_t == 1

StorageDim(type) == IF type = "outputs_2_t" THEN StorageDim_outputs_2_t ELSE DataDim

\* std::vector::resize(n): truncate, or pad with value-initialised elements
Resize(v, n) == [i \in 1 .. n |-> IF i <= Len(v) THEN v[i] ELSE Zero]

\* ToStorage<outputs_2_t> without its v.resize(1)
ToStorage_NoResize(value, v) == [v EXCEPT ![1] = value.foo]

\* ToStorage<outputs_2_t>: the vector after the call
ToStorage_outputs_2_t(value, v) == [Resize(v, 1) EXCEPT ![1] = value.foo]

\* geo::StorageOps<ATANCameraCal>::ToStorage, reached through
\* ATANCameraCal::ToStorage: the vector holds the StorageDim data entries
ToStorage_ATANCameraCal(data, v) == [Resize(v, DataDim) EXCEPT ![1] = data[1],
                                     ![2] = data[2], ![3] = data[3],
                                     ![4] = data[4], ![5] = data[5]]

\* geo::StorageOps<ATANCameraCal>::FromStorage, reached through
\* ATANCameraCal::FromStorage: a fatal check on the length, then the value
FromStorage_ATANCameraCal(v) ==
    IF Len(v) # DataDim THEN [outcome |-> "abort"]
    ELSE [outcome |-> "ok", ret |-> v]

StoreValues == {Zero, Half, R(-3), NaN}

RECURSIVE SeqsUpTo(_, _)
SeqsUpTo(S, n) ==
    IF n = 0 THEN {<<>>}
    ELSE LET shorter == SeqsUpTo(S, n - 1)
         IN  shorter \cup {Append(q, x) : q \in {r \in shorter : Len(r) = n - 1}, x \in S}

Containers == SeqsUpTo(StoreValues, MaxLen)

AtanContainers ==
    UNION {{d, SubSeq(d, 1, DataDim - 1), Append(d, Zero)} : d \in Calibrations}

notStorage == <<calibration_, image_size_, cam, is_valid, approx, lie, outputs_1,
                gen, thr, pose2, lcm>>

\* ToStorage<outputs_2_t>(value, &vec), the vector holding `prior` before
ToStorage(foo, prior) ==
    /\ the_vec' = ToStorage_outputs_2_t([foo |-> foo], prior)
    /\ sto' = [op |-> "ToStorage", type |-> "outputs_2_t", value |-> <<foo>>,
               prior |-> prior]
    /\ UNCHANGED out
    /\ UNCHANGED notStorage

\* ATANCameraCal(data).ToStorage(&vec)
ATANToStorage(data, prior) ==
    /\ the_vec' = ToStorage_ATANCameraCal(data, prior)
    /\ sto' = [op |-> "ToStorage", type |-> "ATANCameraCal", value |-> data,
               prior |-> prior]
    /\ UNCHANGED out
    /\ UNCHANGED notStorage

\* what a FromStorage call records: its container, the struct before the call,
\* and the value a directly preceding ToStorage put in that container
FromRecord(type, elements, outcome, ret) ==
    [op |-> "FromStorage", type |-> type, elements |-> elements,
     out_before |-> out, outcome |-> outcome, ret |-> ret,
     round_trip |-> sto.op = "ToStorage" /\ sto.type = type /\ elements = the_vec,
     stored |-> IF sto.op = "ToStorage" THEN sto.value ELSE <<>>]

\* FromStorage(elements, &out) for outputs_2_t: out->foo = elements[0], with
\* no check of the container's length
FromStorage(elements) ==
    /\ Len(elements) >= 1
    /\ out' = [out EXCEPT !.foo = elements[1]]
    /\ sto' = FromRecord("outputs_2_t", elements, "ok", <<elements[1]>>)
    /\ UNCHANGED the_vec
    /\ UNCHANGED notStorage

\* FromStorage on an empty container reads elements[0] out of bounds: any
\* value may be stored in out->foo, or the process may die
FromStorageEmpty(garbage, dies) ==
    /\ out' = IF dies THEN out ELSE [out EXCEPT !.foo = garbage]
    /\ sto' = FromRecord("outputs_2_t", <<>>, IF dies THEN "crash" ELSE "ok",
                         IF dies THEN <<>> ELSE <<garbage>>)
    /\ UNCHANGED the_vec
    /\ UNCHANGED notStorage

\* ATANCameraCal::FromStorage(elements)
ATANFromStorage(elements) ==
    /\ LET r == FromStorage_ATANCameraCal(elements)
       IN  sto' = FromRecord("ATANCameraCal", elements, r.outcome,
                             IF r.outcome = "ok" THEN r.ret ELSE <<>>)
    /\ UNCHANGED <<the_vec, out>>
    /\ UNCHANGED notStorage

NextStorage ==
    \/ \E x \in StoreValues, prior \in Containers : ToStorage(x, prior)
    \/ \E d \in Calibrations, prior \in Containers \cup AtanContainers :
          ATANToStorage(d, prior)
    \/ \E elements \in {the_vec} \cup Containers : FromStorage(elements)
    \/ \E g \in StoreValues, dies \in BOOLEAN : FromStorageEmpty(g, dies)
    \/ \E elements \in {the_vec} \cup AtanContainers : ATANFromStorage(elements)

SpecStorage == Init /\ [][NextStorage]_vars

\* C5: unflatten(flatten(x)) reproduces x component for component, and
\* ToStorage leaves the vector with exactly StorageDim entries whatever its
\* length and contents were before.
C5_RoundTripAndLength ==
    /\ sto.op = "ToStorage" =>
          /\ Len(the_vec) = StorageDim(sto.type)
          /\ the_vec = sto.value
    /\ (sto.op = "FromStorage" /\ sto.round_trip) =>
          /\ sto.outcome = "ok"
          /\ sto.ret = sto.stored
          /\ sto.type = "outputs_2_t" => <<out.foo>> = sto.stored

C5_Witness ==
    /\ sto.op = "FromStorage"
    /\ sto.type = "outputs_2_t"
    /\ sto.round_trip
    /\ sto.stored = <<R(-3)>>
    /\ out.foo = R(-3)
    /\ sto.out_before.foo # R(-3)

\* C6: FromStorage on a container whose length differs from StorageDim is a
\* fatal check: no value is produced and no output field is written.
C6_WrongLengthFailsLoudly ==
    (sto.op = "FromStorage" /\ Len(sto.elements) # StorageDim(sto.type)) =>
        /\ sto.outcome = "abort"
        /\ out = sto.out_before

\* a too-long container is read without complaint: elements = (-3, 1/2)
C6_TooLongAccepted ==
    /\ sto.op = "FromStorage"
    /\ sto.type = "outputs_2_t"
    /\ sto.elements = <<R(-3), Half>>
    /\ sto.outcome = "ok"
    /\ out.foo = R(-3)

-----------------------------------------------------------------------------
(* geo::pose3::LieGroupOps.  A Pose3 is its storage [qx, qy, qz, qw, tx, ty, tz] *)
(* and a tangent vector its six coordinates, both indexed from 0 as in the  *)
(* source.                                                                 *)

\* an Eigen vector with the entries of the tuple s, indexed from 0
V(s) == [i \in 0 .. Len(s) - 1 |-> s[i + 1]]

\* LieGroupOps<Scalar>::FromTangent: its result and the terms its guards protect
FromTangentTerms(vec, epsilon) ==
    LET _tmp0 == vec[2] ** vec[2]
        _tmp1 == vec[1] ** vec[1]
        _tmp2 == vec[0] ** vec[0]
        _tmp3 == _tmp0 ++ _tmp1 ++ _tmp2 ++ (epsilon ** epsilon)
        _tmp4 == Sqrt(_tmp3)
        _tmp5 == (R(1) // R(2)) ** _tmp4
        _tmp6 == Sin(_tmp5) // _tmp4
        _tmp7 == (_tmp4 -- Sin(_tmp4)) // (_tmp3 ** Sqrt(_tmp3))
        _tmp8 == _tmp7 ** vec[0]
        _tmp9 == _tmp8 ** vec[2]
        _tmp10 == (Neg(Cos(_tmp4)) ++ R(1)) // _tmp3
        _tmp11 == _tmp10 ** vec[1]
        _tmp12 == _tmp8 ** vec[1]
        _tmp13 == _tmp10 ** vec[2]
        _tmp14 == Neg(_tmp1)
        _tmp15 == Neg(_tmp0)
        _tmp16 == _tmp7 ** vec[1] ** vec[2]
        _tmp17 == _tmp10 ** vec[0]
        _tmp18 == Neg(_tmp2)
        _res == [i \in 0 .. 6 |->
            CASE i = 0 -> _tmp6 ** vec[0]
              [] i = 1 -> _tmp6 ** vec[1]
              [] i = 2 -> _tmp6 ** vec[2]
              [] i = 3 -> Cos(_tmp5)
              [] i = 4 -> (vec[3] ** ((_tmp7 ** (_tmp14 ++ _tmp15)) ++ R(1)))
                       ++ (vec[4] ** (_tmp12 -- _tmp13))
                       ++ (vec[5] ** (_tmp11 ++ _tmp9))
              [] i = 5 -> (vec[3] ** (_tmp12 ++ _tmp13))
                       ++ (vec[4] ** ((_tmp7 ** (_tmp15 ++ _tmp18)) ++ R(1)))
                       ++ (vec[5] ** (_tmp16 -- _tmp17))
              [] i = 6 -> (vec[3] ** (Neg(_tmp11) ++ _tmp9))
                       ++ (vec[4] ** (_tmp16 ++ _tmp17))
                       ++ (vec[5] ** ((_tmp7 ** (_tmp14 ++ _tmp18)) ++ R(1)))]
    IN  [res |-> _res, sq_norm |-> _tmp3, norm |-> _tmp4]

FromTangent(vec, epsilon) == FromTangentTerms(vec, epsilon).res

\* ToTangent with the divisor 1 - w^2 left unguarded
ToTangentUnclamped(_a, epsilon) ==
    LET _tmp0 == Neg(_a[3] ** _a[3]) ++ R(1)
        _acos_arg == Max(epsilon -- R(1), Min(_a[3], Neg(epsilon) ++ R(1)))
        _tmp1 == Acos(_acos_arg)
        _tmp2 == _tmp1 // Sqrt(_tmp0)
        _tmp3 == R(2) ** _tmp2
        _tmp4 == (R(4) ** (_tmp1 ** _tmp1)) // _tmp0
        _tmp5 == _a[2] ** _a[2] ** _tmp4
        _tmp6 == _a[1] ** _a[1] ** _tmp4
        _tmp7 == _a[0] ** _a[0] ** _tmp4
        _tmp8 == _tmp5 ++ _tmp6 ++ _tmp7 ++ epsilon
        _tmp9 == Sqrt(_tmp8)
        _tmp10 == Half ** _tmp9
        _tmp11 == ((((R(-1) // R(2)) ** _tmp9 ** Cos(_tmp10)) // Sin(_tmp10)) ++ R(1)) // _tmp8
        _tmp12 == _a[2] ** _tmp11 ** _tmp4
        _tmp13 == _a[0] ** _tmp12
        _tmp14 == R(1) ** _tmp2
        _tmp15 == _a[1] ** _tmp14
        _tmp16 == _a[0] ** _a[1] ** _tmp11 ** _tmp4
        _tmp17 == _a[2] ** _tmp14
        _tmp18 == Neg(_tmp6)
        _tmp19 == Neg(_tmp5)
        _tmp20 == _a[1] ** _tmp12
        _tmp21 == _a[0] ** _tmp14
        _tmp22 == Neg(_tmp7)
        _res == [i \in 0 .. 5 |->
            CASE i = 0 -> _a[0] ** _tmp3
              [] i = 1 -> _a[1] ** _tmp3
              [] i = 2 -> _a[2] ** _tmp3
              [] i = 3 -> (_a[4] ** ((_tmp11 ** (_tmp18 ++ _tmp19)) ++ R(1)))
                       ++ (_a[5] ** (_tmp16 ++ _tmp17))
                       ++ (_a[6] ** (_tmp13 -- _tmp15))
              [] i = 4 -> (_a[4] ** (_tmp16 -- _tmp17))
                       ++ (_a[5] ** ((_tmp11 ** (_tmp19 ++ _tmp22)) ++ R(1)))
                       ++ (_a[6] ** (_tmp20 ++ _tmp21))
              [] i = 5 -> (_a[4] ** (_tmp13 ++ _tmp15))
                       ++ (_a[5] ** (_tmp20 -- _tmp21))
                       ++ (_a[6] ** ((_tmp11 ** (_tmp18 ++ _tmp22)) ++ R(1)))]
    IN  [res |-> _res, acos_arg |-> _acos_arg, sin_sq |-> _tmp0, sq_angle |-> _tmp8]

\* LieGroupOps<Scalar>::ToTangent: its result and the terms its guards protect
ToTangentTerms(_a, epsilon) ==
    LET _tmp0 == Max(epsilon, Neg(_a[3] ** _a[3]) ++ R(1))
        _acos_arg == Max(epsilon -- R(1), Min(_a[3], Neg(epsilon) ++ R(1)))
        _tmp1 == Acos(_acos_arg)
        _tmp2 == _tmp1 // Sqrt(_tmp0)
        _tmp3 == R(2) ** _tmp2
        _tmp4 == (R(4) ** (_tmp1 ** _tmp1)) // _tmp0
        _tmp5 == _a[2] ** _a[2] ** _tmp4
        _tmp6 == _a[1] ** _a[1] ** _tmp4
        _tmp7 == _a[0] ** _a[0] ** _tmp4
        _tmp8 == _tmp5 ++ _tmp6 ++ _tmp7 ++ epsilon
        _tmp9 == Sqrt(_tmp8)
        _tmp10 == Half ** _tmp9
        _tmp11 == ((((R(-1) // R(2)) ** _tmp9 ** Cos(_tmp10)) // Sin(_tmp10)) ++ R(1)) // _tmp8
        _tmp12 == _a[2] ** _tmp11 ** _tmp4
        _tmp13 == _a[0] ** _tmp12
        _tmp14 == R(1) ** _tmp2
        _tmp15 == _a[1] ** _tmp14
        _tmp16 == _a[0] ** _a[1] ** _tmp11 ** _tmp4
        _tmp17 == _a[2] ** _tmp14
        _tmp18 == Neg(_tmp6)
        _tmp19 == Neg(_tmp5)
        _tmp20 == _a[1] ** _tmp12
        _tmp21 == _a[0] ** _tmp14
        _tmp22 == Neg(_tmp7)
        _res == [i \in 0 .. 5 |->
            CASE i = 0 -> _a[0] ** _tmp3
              [] i = 1 -> _a[1] ** _tmp3
              [] i = 2 -> _a[2] ** _tmp3
              [] i = 3 -> (_a[4] ** ((_tmp11 ** (_tmp18 ++ _tmp19)) ++ R(1)))
                       ++ (_a[5] ** (_tmp16 ++ _tmp17))
                       ++ (_a[6] ** (_tmp13 -- _tmp15))
              [] i = 4 -> (_a[4] ** (_tmp16 -- _tmp17))
                       ++ (_a[5] ** ((_tmp11 ** (_tmp19 ++ _tmp22)) ++ R(1)))
                       ++ (_a[6] ** (_tmp20 ++ _tmp21))
              [] i = 5 -> (_a[4] ** (_tmp13 ++ _tmp15))
                       ++ (_a[5] ** (_tmp20 -- _tmp21))
                       ++ (_a[6] ** ((_tmp11 ** (_tmp18 ++ _tmp22)) ++ R(1)))]
    IN  [res |-> _res, acos_arg |-> _acos_arg, sin_sq |-> _tmp0, sq_angle |-> _tmp8]

ToTangent(_a, epsilon) == ToTangentTerms(_a, epsilon).res

\* Retract with the sign of one quaternion-product term flipped
RetractSignSlip(_a, vec, epsilon) ==
    LET _tmp0 == vec[2] ** vec[2]
        _tmp1 == vec[1] ** vec[1]
        _tmp2 == vec[0] ** vec[0]
        _tmp3 == _tmp0 ++ _tmp1 ++ _tmp2 ++ (epsilon ** epsilon)
        _tmp4 == Sqrt(_tmp3)
        _tmp5 == (R(1) // R(2)) ** _tmp4
        _tmp6 == Sin(_tmp5) // _tmp4
        _tmp7 == _tmp6 ** vec[2]
        _tmp8 == _tmp6 ** vec[1]
        _tmp9 == Cos(_tmp5)
        _tmp10 == _a[3] ** _tmp6
        _tmp11 == _tmp6 ** vec[0]
        _tmp12 == R(2) ** _a[1]
        _tmp13 == _a[3] ** _tmp12
        _tmp14 == R(2) ** _a[0]
        _tmp15 == _a[2] ** _tmp14
        _tmp16 == Neg(_tmp2)
        _tmp17 == Neg(_tmp1)
        _tmp18 == (_tmp4 -- Sin(_tmp4)) // (_tmp3 ** Sqrt(_tmp3))
        _tmp19 == _tmp18 ** vec[1] ** vec[2]
        _tmp20 == (Neg(Cos(_tmp4)) ++ R(1)) // _tmp3
        _tmp21 == _tmp20 ** vec[0]
        _tmp22 == _tmp18 ** vec[0]
        _tmp23 == _tmp22 ** vec[2]
        _tmp24 == _tmp20 ** vec[1]
        _tmp25 == (vec[3] ** (_tmp23 -- _tmp24)) ++ (vec[4] ** (_tmp19 ++ _tmp21)) ++ (vec[5] ** ((_tmp18 ** (_tmp16 ++ _tmp17)) ++ R(1)))
        _tmp26 == R(2) ** _a[2] ** _a[3]
        _tmp27 == _a[0] ** _tmp12
        _tmp28 == Neg(_tmp0)
        _tmp29 == _tmp22 ** vec[1]
        _tmp30 == _tmp20 ** vec[2]
        _tmp31 == (vec[3] ** (_tmp29 ++ _tmp30)) ++ (vec[4] ** ((_tmp18 ** (_tmp16 ++ _tmp28)) ++ R(1))) ++ (vec[5] ** (_tmp19 -- _tmp21))
        _tmp32 == R(-2) ** (_a[2] ** _a[2])
        _tmp33 == (R(-2) ** (_a[1] ** _a[1])) ++ R(1)
        _tmp34 == (vec[3] ** ((_tmp18 ** (_tmp17 ++ _tmp28)) ++ R(1))) ++ (vec[4] ** (_tmp29 -- _tmp30)) ++ (vec[5] ** (_tmp23 ++ _tmp24))
        _tmp35 == _a[3] ** _tmp14
        _tmp36 == _a[2] ** _tmp12
        _tmp37 == R(-2) ** (_a[0] ** _a[0])
        _res == [i \in 0 .. 6 |->
            CASE i = 0 -> (((_a[0] ** _tmp9)
                       ++ (_a[1] ** _tmp7)) -- (_a[2] ** _tmp8))
                       ++ (_tmp10 ** vec[0])
              [] i = 1 -> (_a[0] ** _tmp7)
                       ++ (_a[1] ** _tmp9)
                       ++ (_a[2] ** _tmp11)
                       ++ (_a[3] ** _tmp8)
              [] i = 2 -> ((_a[0] ** _tmp8) -- (_a[1] ** _tmp11))
                       ++ (_a[2] ** _tmp9)
                       ++ (_tmp10 ** vec[2])
              [] i = 3 -> ((Neg(_a[0]) ** _tmp11) -- (_a[1] ** _tmp8) -- (_a[2] ** _tmp7))
                       ++ (_a[3] ** _tmp9)
              [] i = 4 -> _a[4] ++ (_tmp25 ** (_tmp13 ++ _tmp15))
                       ++ (_tmp31 ** (Neg(_tmp26) ++ _tmp27))
                       ++ (_tmp34 ** (_tmp32 ++ _tmp33))
              [] i = 5 -> _a[5] ++ (_tmp25 ** (Neg(_tmp35) ++ _tmp36))
                       ++ (_tmp31 ** (_tmp32 ++ _tmp37 ++ R(1)))
                       ++ (_tmp34 ** (_tmp26 ++ _tmp27))
              [] i = 6 -> _a[6] ++ (_tmp25 ** (_tmp33 ++ _tmp37))
                       ++ (_tmp31 ** (_tmp35 ++ _tmp36))
                       ++ (_tmp34 ** (Neg(_tmp13) ++ _tmp15))]
    IN  [res |-> _res, sq_norm |-> _tmp3, norm |-> _tmp4]

\* Retract with sin written for cos in the real part of the increment
RetractSinForCos(_a, vec, epsilon) ==
    LET _tmp0 == vec[2] ** vec[2]
        _tmp1 == vec[1] ** vec[1]
        _tmp2 == vec[0] ** vec[0]
        _tmp3 == _tmp0 ++ _tmp1 ++ _tmp2 ++ (epsilon ** epsilon)
        _tmp4 == Sqrt(_tmp3)
        _tmp5 == (R(1) // R(2)) ** _tmp4
        _tmp6 == Sin(_tmp5) // _tmp4
        _tmp7 == _tmp6 ** vec[2]
        _tmp8 == _tmp6 ** vec[1]
        _tmp9 == Sin(_tmp5)
        _tmp10 == _a[3] ** _tmp6
        _tmp11 == _tmp6 ** vec[0]
        _tmp12 == R(2) ** _a[1]
        _tmp13 == _a[3] ** _tmp12
        _tmp14 == R(2) ** _a[0]
        _tmp15 == _a[2] ** _tmp14
        _tmp16 == Neg(_tmp2)
        _tmp17 == Neg(_tmp1)
        _tmp18 == (_tmp4 -- Sin(_tmp4)) // (_tmp3 ** Sqrt(_tmp3))
        _tmp19 == _tmp18 ** vec[1] ** vec[2]
        _tmp20 == (Neg(Cos(_tmp4)) ++ R(1)) // _tmp3
        _tmp21 == _tmp20 ** vec[0]
        _tmp22 == _tmp18 ** vec[0]
        _tmp23 == _tmp22 ** vec[2]
        _tmp24 == _tmp20 ** vec[1]
        _tmp25 == (vec[3] ** (_tmp23 -- _tmp24)) ++ (vec[4] ** (_tmp19 ++ _tmp21)) ++ (vec[5] ** ((_tmp18 ** (_tmp16 ++ _tmp17)) ++ R(1)))
        _tmp26 == R(2) ** _a[2] ** _a[3]
        _tmp27 == _a[0] ** _tmp12
        _tmp28 == Neg(_tmp0)
        _tmp29 == _tmp22 ** vec[1]
        _tmp30 == _tmp20 ** vec[2]
        _tmp31 == (vec[3] ** (_tmp29 ++ _tmp30)) ++ (vec[4] ** ((_tmp18 ** (_tmp16 ++ _tmp28)) ++ R(1))) ++ (vec[5] ** (_tmp19 -- _tmp21))
        _tmp32 == R(-2) ** (_a[2] ** _a[2])
        _tmp33 == (R(-2) ** (_a[1] ** _a[1])) ++ R(1)
        _tmp34 == (vec[3] ** ((_tmp18 ** (_tmp17 ++ _tmp28)) ++ R(1))) ++ (vec[4] ** (_tmp29 -- _tmp30)) ++ (vec[5] ** (_tmp23 ++ _tmp24))
        _tmp35 == _a[3] ** _tmp14
        _tmp36 == _a[2] ** _tmp12
        _tmp37 == R(-2) ** (_a[0] ** _a[0])
        _res == [i \in 0 .. 6 |->
            CASE i = 0 -> (((_a[0] ** _tmp9)
                       ++ (_a[1] ** _tmp7)) -- (_a[2] ** _tmp8))
                       ++ (_tmp10 ** vec[0])
              [] i = 1 -> (Neg(_a[0]) ** _tmp7)
                       ++ (_a[1] ** _tmp9)
                       ++ (_a[2] ** _tmp11)
                       ++ (_a[3] ** _tmp8)
              [] i = 2 -> ((_a[0] ** _tmp8) -- (_a[1] ** _tmp11))
                       ++ (_a[2] ** _tmp9)
                       ++ (_tmp10 ** vec[2])
              [] i = 3 -> ((Neg(_a[0]) ** _tmp11) -- (_a[1] ** _tmp8) -- (_a[2] ** _tmp7))
                       ++ (_a[3] ** _tmp9)
              [] i = 4 -> _a[4] ++ (_tmp25 ** (_tmp13 ++ _tmp15))
                       ++ (_tmp31 ** (Neg(_tmp26) ++ _tmp27))
                       ++ (_tmp34 ** (_tmp32 ++ _tmp33))
              [] i = 5 -> _a[5] ++ (_tmp25 ** (Neg(_tmp35) ++ _tmp36))
                       ++ (_tmp31 ** (_tmp32 ++ _tmp37 ++ R(1)))
                       ++ (_tmp34 ** (_tmp26 ++ _tmp27))
              [] i = 6 -> _a[6] ++ (_tmp25 ** (_tmp33 ++ _tmp37))
                       ++ (_tmp31 ** (_tmp35 ++ _tmp36))
                       ++ (_tmp34 ** (Neg(_tmp13) ++ _tmp15))]
    IN  [res |-> _res, sq_norm |-> _tmp3, norm |-> _tmp4]

\* LieGroupOps<Scalar>::Retract: its result and the terms its guards protect
RetractTerms(_a, vec, epsilon) ==
    LET _tmp0 == vec[2] ** vec[2]
        _tmp1 == vec[1] ** vec[1]
        _tmp2 == vec[0] ** vec[0]
        _tmp3 == _tmp0 ++ _tmp1 ++ _tmp2 ++ (epsilon ** epsilon)
        _tmp4 == Sqrt(_tmp3)
        _tmp5 == (R(1) // R(2)) ** _tmp4
        _tmp6 == Sin(_tmp5) // _tmp4
        _tmp7 == _tmp6 ** vec[2]
        _tmp8 == _tmp6 ** vec[1]
        _tmp9 == Cos(_tmp5)
        _tmp10 == _a[3] ** _tmp6
        _tmp11 == _tmp6 ** vec[0]
        _tmp12 == R(2) ** _a[1]
        _tmp13 == _a[3] ** _tmp12
        _tmp14 == R(2) ** _a[0]
        _tmp15 == _a[2] ** _tmp14
        _tmp16 == Neg(_tmp2)
        _tmp17 == Neg(_tmp1)
        _tmp18 == (_tmp4 -- Sin(_tmp4)) // (_tmp3 ** Sqrt(_tmp3))
        _tmp19 == _tmp18 ** vec[1] ** vec[2]
        _tmp20 == (Neg(Cos(_tmp4)) ++ R(1)) // _tmp3
        _tmp21 == _tmp20 ** vec[0]
        _tmp22 == _tmp18 ** vec[0]
        _tmp23 == _tmp22 ** vec[2]
        _tmp24 == _tmp20 ** vec[1]
        _tmp25 == (vec[3] ** (_tmp23 -- _tmp24)) ++ (vec[4] ** (_tmp19 ++ _tmp21)) ++ (vec[5] ** ((_tmp18 ** (_tmp16 ++ _tmp17)) ++ R(1)))
        _tmp26 == R(2) ** _a[2] ** _a[3]
        _tmp27 == _a[0] ** _tmp12
        _tmp28 == Neg(_tmp0)
        _tmp29 == _tmp22 ** vec[1]
        _tmp30 == _tmp20 ** vec[2]
        _tmp31 == (vec[3] ** (_tmp29 ++ _tmp30)) ++ (vec[4] ** ((_tmp18 ** (_tmp16 ++ _tmp28)) ++ R(1))) ++ (vec[5] ** (_tmp19 -- _tmp21))
        _tmp32 == R(-2) ** (_a[2] ** _a[2])
        _tmp33 == (R(-2) ** (_a[1] ** _a[1])) ++ R(1)
        _tmp34 == (vec[3] ** ((_tmp18 ** (_tmp17 ++ _tmp28)) ++ R(1))) ++ (vec[4] ** (_tmp29 -- _tmp30)) ++ (vec[5] ** (_tmp23 ++ _tmp24))
        _tmp35 == _a[3] ** _tmp14
        _tmp36 == _a[2] ** _tmp12
        _tmp37 == R(-2) ** (_a[0] ** _a[0])
        _res == [i \in 0 .. 6 |->
            CASE i = 0 -> (((_a[0] ** _tmp9)
                       ++ (_a[1] ** _tmp7)) -- (_a[2] ** _tmp8))
                       ++ (_tmp10 ** vec[0])
              [] i = 1 -> (Neg(_a[0]) ** _tmp7)
                       ++ (_a[1] ** _tmp9)
                       ++ (_a[2] ** _tmp11)
                       ++ (_a[3] ** _tmp8)
              [] i = 2 -> ((_a[0] ** _tmp8) -- (_a[1] ** _tmp11))
                       ++ (_a[2] ** _tmp9)
                       ++ (_tmp10 ** vec[2])
              [] i = 3 -> ((Neg(_a[0]) ** _tmp11) -- (_a[1] ** _tmp8) -- (_a[2] ** _tmp7))
                       ++ (_a[3] ** _tmp9)
              [] i = 4 -> _a[4] ++ (_tmp25 ** (_tmp13 ++ _tmp15))
                       ++ (_tmp31 ** (Neg(_tmp26) ++ _tmp27))
                       ++ (_tmp34 ** (_tmp32 ++ _tmp33))
              [] i = 5 -> _a[5] ++ (_tmp25 ** (Neg(_tmp35) ++ _tmp36))
                       ++ (_tmp31 ** (_tmp32 ++ _tmp37 ++ R(1)))
                       ++ (_tmp34 ** (_tmp26 ++ _tmp27))
              [] i = 6 -> _a[6] ++ (_tmp25 ** (_tmp33 ++ _tmp37))
                       ++ (_tmp31 ** (_tmp35 ++ _tmp36))
                       ++ (_tmp34 ** (Neg(_tmp13) ++ _tmp15))]
    IN  [res |-> _res, sq_norm |-> _tmp3, norm |-> _tmp4]

Retract(_a, vec, epsilon) == RetractTerms(_a, vec, epsilon).res

\* LocalCoordinates with the sign of one relative-rotation term flipped
LocalCoordinatesSignSlip(_a, _b, epsilon) ==
    LET _tmp0 == ((Neg(_a[0]) ** _b[3]) -- (_a[1] ** _b[2])) ++ (_a[2] ** _b[1]) ++ (_a[3] ** _b[0])
        _tmp1 == (_a[0] ** _b[0]) ++ (_a[1] ** _b[1]) ++ (_a[2] ** _b[2]) ++ (_a[3] ** _b[3])
        _acos_arg == Max(epsilon -- R(1), Min(_tmp1, Neg(epsilon) ++ R(1)))
        _tmp2 == Acos(_acos_arg)
        _tmp3 == Max(epsilon, Neg(_tmp1 ** _tmp1) ++ R(1))
        _tmp4 == _tmp2 // Sqrt(_tmp3)
        _tmp5 == R(2) ** _tmp4
        _tmp6 == ((Neg(_a[0]) ** _b[2]) -- (_a[1] ** _b[3]) -- (_a[2] ** _b[0])) ++ (_a[3] ** _b[1])
        _tmp7 == (((Neg(_a[0]) ** _b[1]) ++ (_a[1] ** _b[0])) -- (_a[2] ** _b[3])) ++ (_a[3] ** _b[2])
        _tmp8 == R(-2) ** (_a[0] ** _a[0])
        _tmp9 == (R(-2) ** (_a[1] ** _a[1])) ++ R(1)
        _tmp10 == _tmp8 ++ _tmp9
        _tmp11 == R(2) ** _a[0]
        _tmp12 == _a[3] ** _tmp11
        _tmp13 == R(2) ** _a[2]
        _tmp14 == _a[1] ** _tmp13
        _tmp15 == Neg(_tmp12) ++ _tmp14
        _tmp16 == R(2) ** _a[1] ** _a[3]
        _tmp17 == _a[2] ** _tmp11
        _tmp18 == _tmp16 ++ _tmp17
        _tmp19 == ((Neg(_a[4]) ** _tmp18) -- (_a[5] ** _tmp15) -- (_a[6] ** _tmp10)) ++ (_b[4] ** _tmp18) ++ (_b[5] ** _tmp15) ++ (_b[6] ** _tmp10)
        _tmp20 == (R(4) ** (_tmp2 ** _tmp2)) // _tmp3
        _tmp21 == _tmp20 ** (_tmp7 ** _tmp7)
        _tmp22 == _tmp20 ** (_tmp6 ** _tmp6)
        _tmp23 == _tmp0 ** _tmp0 ** _tmp20
        _tmp24 == _tmp21 ++ _tmp22 ++ _tmp23 ++ epsilon
        _tmp25 == Sqrt(_tmp24)
        _tmp26 == Half ** _tmp25
        _tmp27 == ((((R(-1) // R(2)) ** _tmp25 ** Cos(_tmp26)) // Sin(_tmp26)) ++ R(1)) // _tmp24
        _tmp28 == _tmp0 ** _tmp20 ** _tmp27
        _tmp29 == _tmp28 ** _tmp7
        _tmp30 == R(1) ** _tmp4
        _tmp31 == _tmp30 ** _tmp6
        _tmp32 == _tmp12 ++ _tmp14
        _tmp33 == R(-2) ** (_a[2] ** _a[2])
        _tmp34 == _tmp33 ++ _tmp8 ++ R(1)
        _tmp35 == _a[3] ** _tmp13
        _tmp36 == _a[1] ** _tmp11
        _tmp37 == Neg(_tmp35) ++ _tmp36
        _tmp38 == ((Neg(_a[4]) ** _tmp37) -- (_a[5] ** _tmp34) -- (_a[6] ** _tmp32)) ++ (_b[4] ** _tmp37) ++ (_b[5] ** _tmp34) ++ (_b[6] ** _tmp32)
        _tmp39 == _tmp28 ** _tmp6
        _tmp40 == _tmp30 ** _tmp7
        _tmp41 == Neg(_tmp16) ++ _tmp17
        _tmp42 == _tmp35 ++ _tmp36
        _tmp43 == _tmp33 ++ _tmp9
        _tmp44 == ((Neg(_a[4]) ** _tmp43) -- (_a[5] ** _tmp42) -- (_a[6] ** _tmp41)) ++ (_b[4] ** _tmp43) ++ (_b[5] ** _tmp42) ++ (_b[6] ** _tmp41)
        _tmp45 == Neg(_tmp22)
        _tmp46 == Neg(_tmp21)
        _tmp47 == _tmp20 ** _tmp27 ** _tmp6 ** _tmp7
        _tmp48 == _tmp0 ** _tmp30
        _tmp49 == Neg(_tmp23)
        _res == [i \in 0 .. 5 |->
            CASE i = 0 -> _tmp0 ** _tmp5
              [] i = 1 -> _tmp5 ** _tmp6
              [] i = 2 -> _tmp5 ** _tmp7
              [] i = 3 -> (_tmp19 ** (_tmp29 -- _tmp31))
                       ++ (_tmp38 ** (_tmp39 ++ _tmp40))
                       ++ (_tmp44 ** ((_tmp27 ** (_tmp45 ++ _tmp46)) ++ R(1)))
              [] i = 4 -> (_tmp19 ** (_tmp47 ++ _tmp48))
                       ++ (_tmp38 ** ((_tmp27 ** (_tmp46 ++ _tmp49)) ++ R(1)))
                       ++ (_tmp44 ** (_tmp39 -- _tmp40))
              [] i = 5 -> (_tmp19 ** ((_tmp27 ** (_tmp45 ++ _tmp49)) ++ R(1)))
                       ++ (_tmp38 ** (_tmp47 -- _tmp48))
                       ++ (_tmp44 ** (_tmp29 ++ _tmp31))]
    IN  [res |-> _res, acos_arg |-> _acos_arg, sin_sq |-> _tmp3, sq_angle |-> _tmp24]

\* LieGroupOps<Scalar>::LocalCoordinates: its result and the terms its guards protect
LocalCoordinatesTerms(_a, _b, epsilon) ==
    LET _tmp0 == ((Neg(_a[0]) ** _b[3]) -- (_a[1] ** _b[2])) ++ (_a[2] ** _b[1]) ++ (_a[3] ** _b[0])
        _tmp1 == (_a[0] ** _b[0]) ++ (_a[1] ** _b[1]) ++ (_a[2] ** _b[2]) ++ (_a[3] ** _b[3])
        _acos_arg == Max(epsilon -- R(1), Min(_tmp1, Neg(epsilon) ++ R(1)))
        _tmp2 == Acos(_acos_arg)
        _tmp3 == Max(epsilon, Neg(_tmp1 ** _tmp1) ++ R(1))
        _tmp4 == _tmp2 // Sqrt(_tmp3)
        _tmp5 == R(2) ** _tmp4
        _tmp6 == ((_a[0] ** _b[2]) -- (_a[1] ** _b[3]) -- (_a[2] ** _b[0])) ++ (_a[3] ** _b[1])
        _tmp7 == (((Neg(_a[0]) ** _b[1]) ++ (_a[1] ** _b[0])) -- (_a[2] ** _b[3])) ++ (_a[3] ** _b[2])
        _tmp8 == R(-2) ** (_a[0] ** _a[0])
        _tmp9 == (R(-2) ** (_a[1] ** _a[1])) ++ R(1)
        _tmp10 == _tmp8 ++ _tmp9
        _tmp11 == R(2) ** _a[0]
        _tmp12 == _a[3] ** _tmp11
        _tmp13 == R(2) ** _a[2]
        _tmp14 == _a[1] ** _tmp13
        _tmp15 == Neg(_tmp12) ++ _tmp14
        _tmp16 == R(2) ** _a[1] ** _a[3]
        _tmp17 == _a[2] ** _tmp11
        _tmp18 == _tmp16 ++ _tmp17
        _tmp19 == ((Neg(_a[4]) ** _tmp18) -- (_a[5] ** _tmp15) -- (_a[6] ** _tmp10)) ++ (_b[4] ** _tmp18) ++ (_b[5] ** _tmp15) ++ (_b[6] ** _tmp10)
        _tmp20 == (R(4) ** (_tmp2 ** _tmp2)) // _tmp3
        _tmp21 == _tmp20 ** (_tmp7 ** _tmp7)
        _tmp22 == _tmp20 ** (_tmp6 ** _tmp6)
        _tmp23 == _tmp0 ** _tmp0 ** _tmp20
        _tmp24 == _tmp21 ++ _tmp22 ++ _tmp23 ++ epsilon
        _tmp25 == Sqrt(_tmp24)
        _tmp26 == Half ** _tmp25
        _tmp27 == ((((R(-1) // R(2)) ** _tmp25 ** Cos(_tmp26)) // Sin(_tmp26)) ++ R(1)) // _tmp24
        _tmp28 == _tmp0 ** _tmp20 ** _tmp27
        _tmp29 == _tmp28 ** _tmp7
        _tmp30 == R(1) ** _tmp4
        _tmp31 == _tmp30 ** _tmp6
        _tmp32 == _tmp12 ++ _tmp14
        _tmp33 == R(-2) ** (_a[2] ** _a[2])
        _tmp34 == _tmp33 ++ _tmp8 ++ R(1)
        _tmp35 == _a[3] ** _tmp13
        _tmp36 == _a[1] ** _tmp11
        _tmp37 == Neg(_tmp35) ++ _tmp36
        _tmp38 == ((Neg(_a[4]) ** _tmp37) -- (_a[5] ** _tmp34) -- (_a[6] ** _tmp32)) ++ (_b[4] ** _tmp37) ++ (_b[5] ** _tmp34) ++ (_b[6] ** _tmp32)
        _tmp39 == _tmp28 ** _tmp6
        _tmp40 == _tmp30 ** _tmp7
        _tmp41 == Neg(_tmp16) ++ _tmp17
        _tmp42 == _tmp35 ++ _tmp36
        _tmp43 == _tmp33 ++ _tmp9
        _tmp44 == ((Neg(_a[4]) ** _tmp43) -- (_a[5] ** _tmp42) -- (_a[6] ** _tmp41)) ++ (_b[4] ** _tmp43) ++ (_b[5] ** _tmp42) ++ (_b[6] ** _tmp41)
        _tmp45 == Neg(_tmp22)
        _tmp46 == Neg(_tmp21)
        _tmp47 == _tmp20 ** _tmp27 ** _tmp6 ** _tmp7
        _tmp48 == _tmp0 ** _tmp30
        _tmp49 == Neg(_tmp23)
        _res == [i \in 0 .. 5 |->
            CASE i = 0 -> _tmp0 ** _tmp5
              [] i = 1 -> _tmp5 ** _tmp6
              [] i = 2 -> _tmp5 ** _tmp7
              [] i = 3 -> (_tmp19 ** (_tmp29 -- _tmp31))
                       ++ (_tmp38 ** (_tmp39 ++ _tmp40))
                       ++ (_tmp44 ** ((_tmp27 ** (_tmp45 ++ _tmp46)) ++ R(1)))
              [] i = 4 -> (_tmp19 ** (_tmp47 ++ _tmp48))
                       ++ (_tmp38 ** ((_tmp27 ** (_tmp46 ++ _tmp49)) ++ R(1)))
                       ++ (_tmp44 ** (_tmp39 -- _tmp40))
              [] i = 5 -> (_tmp19 ** ((_tmp27 ** (_tmp45 ++ _tmp49)) ++ R(1)))
                       ++ (_tmp38 ** (_tmp47 -- _tmp48))
                       ++ (_tmp44 ** (_tmp29 ++ _tmp31))]
    IN  [res |-> _res, acos_arg |-> _acos_arg, sin_sq |-> _tmp3, sq_angle |-> _tmp24]

LocalCoordinates(_a, _b, epsilon) == LocalCoordinatesTerms(_a, _b, epsilon).res

\* the rotation matrix of the quaternion [x, y, z, w], by rows
RotationMatrix(x, y, z, w) ==
    <<<<R(1) -- (R(2) ** y ** y) -- (R(2) ** z ** z),
        (R(2) ** x ** y) -- (R(2) ** w ** z),
        (R(2) ** x ** z) ++ (R(2) ** w ** y)>>,
      <<(R(2) ** x ** y) ++ (R(2) ** w ** z),
        R(1) -- (R(2) ** x ** x) -- (R(2) ** z ** z),
        (R(2) ** y ** z) -- (R(2) ** w ** x)>>,
      <<(R(2) ** x ** z) -- (R(2) ** w ** y),
        (R(2) ** y ** z) ++ (R(2) ** w ** x),
        R(1) -- (R(2) ** x ** x) -- (R(2) ** y ** y)>>>>

\* the matrix m applied to the vector (p0, p1, p2)
Rotate(m, p0, p1, p2) ==
    [i \in 1 .. 3 |-> (m[i][1] ** p0) ++ (m[i][2] ** p1) ++ (m[i][3] ** p2)]

\* GroupOps::Compose: the quaternion product a.q * b.q, and a.t + R(a.q) * b.t
Compose(_a, _b) ==
    LET rt == Rotate(RotationMatrix(_a[0], _a[1], _a[2], _a[3]), _b[4], _b[5], _b[6])
    IN  V(<<(_a[3] ** _b[0]) ++ (_a[0] ** _b[3]) ++ (_a[1] ** _b[2]) -- (_a[2] ** _b[1]),
            ((_a[3] ** _b[1]) -- (_a[0] ** _b[2])) ++ (_a[1] ** _b[3]) ++ (_a[2] ** _b[0]),
            ((_a[3] ** _b[2]) ++ (_a[0] ** _b[1]) -- (_a[1] ** _b[0])) ++ (_a[2] ** _b[3]),
            (_a[3] ** _b[3]) -- (_a[0] ** _b[0]) -- (_a[1] ** _b[1]) -- (_a[2] ** _b[2]),
            _a[4] ++ rt[1],
            _a[5] ++ rt[2],
            _a[6] ++ rt[3]>>)

\* GroupOps::Inverse: the conjugate rotation, and -(R(conj a.q) * a.t)
Inverse(_a) ==
    LET rt == Rotate(RotationMatrix(Neg(_a[0]), Neg(_a[1]), Neg(_a[2]), _a[3]),
                     _a[4], _a[5], _a[6])
    IN  V(<<Neg(_a[0]), Neg(_a[1]), Neg(_a[2]), _a[3],
            Neg(rt[1]), Neg(rt[2]), Neg(rt[3])>>)

\* GroupOps::Between
Between(_a, _b) == Compose(Inverse(_a), _b)

Poses ==
    {V(<<Zero, Zero, Zero, One, Zero, Zero, Zero>>),
     V(<<Half, Half, Half, Half, One, Neg(Half), R(2)>>),
     V(<<Zero, Zero, One, Zero, Zero, One, Zero>>),
     V(<<Neg(Half), Half, Neg(Half), Neg(Half), R(-1), Zero, Half>>),
     V(<<Half, Zero, Zero, Half, One, One, One>>),
     V(<<One, One, Zero, One, Zero, Zero, R(2)>>)}

Halves == {Dy(k, 1) : k \in -MaxHalf .. MaxHalf}

Translations == {<<Zero, Zero, Zero>>, <<One, Neg(Half), R(2)>>}

Tangents == {V(<<x, y, z, t[1], t[2], t[3]>>) :
                x \in Halves, y \in Halves, z \in Halves, t \in Translations}

ZeroTangent == V(<<Zero, Zero, Zero, Zero, Zero, Zero>>)

Epsilons == {Zero, Ulp, Dy(1, 2), Half, One}

\* one call of a Lie-group operation, its arguments drawn before the call
PendingCalls ==
    {[op |-> "pending", fn |-> "FromTangent", vec |-> v, epsilon |-> e] :
        v \in Tangents, e \in Epsilons}
    \cup {[op |-> "pending", fn |-> "ToTangent", a |-> a, epsilon |-> e] :
        a \in Poses, e \in Epsilons}
    \cup {[op |-> "pending", fn |-> "Retract", a |-> a, vec |-> v, epsilon |-> e] :
        a \in Poses, v \in Tangents, e \in Epsilons}
    \cup {[op |-> "pending", fn |-> "LocalCoordinates", a |-> a, b |-> b, epsilon |-> e] :
        a \in Poses, b \in Poses, e \in Epsilons}

InitPose3 ==
    /\ InitCamera
    /\ InitStorage
    /\ InitOthers
    /\ approx = NoCall
    /\ lie \in PendingCalls

notLie == <<calibration_, image_size_, cam, is_valid, approx, the_vec, out, sto,
            outputs_1, gen, thr, pose2, lcm>>

CallFromTangent ==
    /\ lie.op = "pending" /\ lie.fn = "FromTangent"
    /\ lie' = [op |-> "FromTangent", vec |-> lie.vec, epsilon |-> lie.epsilon,
               res |-> FromTangent(lie.vec, lie.epsilon)]
    /\ UNCHANGED notLie

CallToTangent ==
    /\ lie.op = "pending" /\ lie.fn = "ToTangent"
    /\ lie' = [op |-> "ToTangent", a |-> lie.a, epsilon |-> lie.epsilon,
               res |-> ToTangent(lie.a, lie.epsilon)]
    /\ UNCHANGED notLie

CallRetract ==
    /\ lie.op = "pending" /\ lie.fn = "Retract"
    /\ lie' = [op |-> "Retract", a |-> lie.a, vec |-> lie.vec, epsilon |-> lie.epsilon,
               res |-> Retract(lie.a, lie.vec, lie.epsilon)]
    /\ UNCHANGED notLie

CallLocalCoordinates ==
    /\ lie.op = "pending" /\ lie.fn = "LocalCoordinates"
    /\ lie' = [op |-> "LocalCoordinates", a |-> lie.a, b |-> lie.b,
               epsilon |-> lie.epsilon,
               res |-> LocalCoordinates(lie.a, lie.b, lie.epsilon)]
    /\ UNCHANGED notLie

NextPose3 ==
    \/ CallFromTangent
    \/ CallToTangent
    \/ CallRetract
    \/ CallLocalCoordinates

SpecPose3 == InitPose3 /\ [][NextPose3]_vars

-----------------------------------------------------------------------------
(* Claims about geo::pose3::LieGroupOps, checked under SpecPose3 *)

Finite(f) == \A i \in DOMAIN f : ~IsNaN(f[i])

\* 0 < epsilon < 1
SmallPositive(epsilon) == Less(Zero, epsilon) /\ Less(epsilon, One)

\* C7: Retract(a, v, eps) is Compose(a, FromTangent(v, eps)): the rotation is
\* the quaternion product a.q * q' and the translation a.t + R(a.q) * t', with
\* (q', t') the seven components FromTangent(v, eps) returns.
C7_RetractIsComposeFromTangent ==
    lie.op = "Retract" =>
        lie.res = Compose(lie.a, FromTangent(lie.vec, lie.epsilon))

C7_Witness ==
    /\ lie.op = "Retract"
    /\ lie.a = V(<<Half, Half, Half, Half, One, Neg(Half), R(2)>>)
    /\ lie.vec = V(<<Half, Zero, Neg(Half), One, Neg(Half), R(2)>>)
    /\ lie.epsilon = Ulp
    /\ Finite(lie.res)
    /\ \A i \in 0 .. 6 : lie.res[i] # lie.a[i]

\* C8: LocalCoordinates(a, b, eps) is ToTangent(Between(a, b), eps) with
\* Between(a, b) = Compose(Inverse(a), b): the six outputs agree, and so do the
\* clamped acos argument and the two guarded divisors.
C8_LocalCoordinatesIsToTangentBetween ==
    lie.op = "LocalCoordinates" =>
        LET lc == LocalCoordinatesTerms(lie.a, lie.b, lie.epsilon)
            tt == ToTangentTerms(Between(lie.a, lie.b), lie.epsilon)
        IN  /\ lie.res = tt.res
            /\ lc.acos_arg = tt.acos_arg
            /\ lc.sin_sq = tt.sin_sq
            /\ lc.sq_angle = tt.sq_angle

C8_Witness ==
    /\ lie.op = "LocalCoordinates"
    /\ lie.a = V(<<Half, Half, Half, Half, One, Neg(Half), R(2)>>)
    /\ lie.b = V(<<Zero, Zero, One, Zero, Zero, One, Zero>>)
    /\ lie.epsilon = Ulp
    /\ Finite(lie.res)
    /\ \A i \in 0 .. 5 : lie.res[i] # Zero

\* the terms the guards of the last call protect
LogTerms ==
    IF lie.op = "ToTangent" THEN ToTangentTerms(lie.a, lie.epsilon)
    ELSE LocalCoordinatesTerms(lie.a, lie.b, lie.epsilon)

ExpTerms ==
    IF lie.op = "FromTangent" THEN FromTangentTerms(lie.vec, lie.epsilon)
    ELSE RetractTerms(lie.a, lie.vec, lie.epsilon)

\* C9: for 0 < eps < 1 the guards keep the operations inside their domains: in
\* ToTangent and LocalCoordinates the acos argument lies in [eps-1, 1-eps] and
\* the divisors max(eps, 1 - w^2) and (squared scaled norm + eps) are >= eps > 0;
\* in FromTangent and Retract the squared norm v0^2+v1^2+v2^2+eps^2 under the
\* square root is > 0, so no division is by zero and the result is finite.
C9_GuardsKeepDomains ==
    SmallPositive(lie.epsilon) =>
        /\ lie.op \in {"ToTangent", "LocalCoordinates"} =>
              /\ Leq(lie.epsilon -- One, LogTerms.acos_arg)
              /\ Leq(LogTerms.acos_arg, One -- lie.epsilon)
              /\ Leq(lie.epsilon, LogTerms.sin_sq)
              /\ Leq(lie.epsilon, LogTerms.sq_angle)
        /\ lie.op \in {"FromTangent", "Retract"} =>
              /\ Less(Zero, ExpTerms.sq_norm)
              /\ Less(Zero, ExpTerms.norm)
              /\ Finite(lie.res)

\* ToTangent at w = 1, where 1 - w^2 is zero and w is above 1 - eps
C9_Witness ==
    /\ lie.op = "ToTangent"
    /\ lie.a[3] = One
    /\ lie.epsilon = Ulp
    /\ LogTerms.sin_sq = Ulp
    /\ LogTerms.acos_arg = One -- Ulp
    /\ Finite(lie.res)

\* C10: for eps > 0, Retract(a, 0, eps) returns a's translation unchanged and
\* a's quaternion with all four components scaled by cos(eps/2).
C10_IdentityRetract ==
    (lie.op = "Retract" /\ lie.vec = ZeroTangent /\ Less(Zero, lie.epsilon)) =>
        /\ \A i \in 4 .. 6 : lie.res[i] = lie.a[i]
        /\ \A i \in 0 .. 3 : lie.res[i] = lie.a[i] ** Cos(Half ** lie.epsilon)

C10_Witness ==
    /\ lie.op = "Retract"
    /\ lie.vec = ZeroTangent
    /\ lie.epsilon = One
    /\ lie.a = V(<<Half, Half, Half, Half, One, Neg(Half), R(2)>>)
    /\ lie.res[3] = Dy(7, 4)
    /\ lie.res[6] = R(2)

\* ---------------------------------------------------------------------------
\* Required outputs handed in as null pointers
\* (outputs_2_t.h, codegen_multi_function_test1.h)
\* ---------------------------------------------------------------------------

\* a pointer argument: null, or the address of an object holding `target`
Null == [null |-> TRUE]

Ptr(target) == [null |-> FALSE, target |-> target]

\* assert(cond) of <cassert>, assertions compiled in: the process aborts when
\* cond is false
cassert(cond) == IF cond THEN "ok" ELSE "abort"

\* ToStorage<outputs_2_t>(value, vec): the check, then the writes through vec
ToStoragePtr(value, vec) ==
    IF cassert(~vec.null) = "abort" THEN [outcome |-> "abort"]
    ELSE IF vec.null THEN [outcome |-> "undefined"]
    ELSE [outcome |-> "ok", vec |-> ToStorage_outputs_2_t(value, vec.target)]

\* FromStorage(elements, out) for outputs_2_t: the check, then the write
\* through out
FromStoragePtr(elements, ptr) ==
    IF cassert(~ptr.null) = "abort" THEN [outcome |-> "abort"]
    ELSE IF ptr.null THEN [outcome |-> "undefined"]
    ELSE [outcome |-> "ok", out |-> [ptr.target EXCEPT !.foo = elements[1]]]

\* StorageOps::FromStorage<Eigen::Matrix<Scalar, 2, 1>>(elements, outputs_1):
\* the two entries are stored through the pointer; what it does with a null
\* pointer is not known
FromStorage_outputs_1_t(elements, ptr) ==
    IF ptr.null THEN [outcome |-> "undefined"]
    ELSE [outcome |-> "ok", outputs_1 |-> <<elements[1], elements[2]>>]

\* CodegenMultiFunctionTest1 with its assert left out
CodegenMultiFunctionTest1_NoCheck(_inputs, ptr) ==
    LET _tmp0 == _inputs[0] ** _inputs[0]
        _outputs_1 == <<_inputs[5] ++ _tmp0,
                        _inputs[6] ++ _tmp0 ++ Sin(_inputs[1])>>
    IN  FromStorage_outputs_1_t(_outputs_1, ptr)

\* CodegenMultiFunctionTest1(inputs, outputs_1), _inputs the nine entries
\* ToStorage<inputs_t> put in the local inputs_array
CodegenMultiFunctionTest1(_inputs, ptr) ==
    LET _tmp0 == _inputs[0] ** _inputs[0]
        _outputs_1 == <<_inputs[5] ++ _tmp0,
                        _inputs[6] ++ _tmp0 ++ Sin(_inputs[1])>>
    IN  IF cassert(~ptr.null) = "abort" THEN [outcome |-> "abort"]
        ELSE FromStorage_outputs_1_t(_outputs_1, ptr)

InputArrays ==
    {V(<<x, y, Zero, Zero, Zero, a, One, Zero, Zero>>) :
        x \in {Half, R(-3)}, y \in {Zero, One}, a \in {Zero, R(2)}}

\* what a write through a null pointer may leave in an object of the caller
Clobbered == {<<Zero, Zero>>, <<NaN, R(-3)>>}

\* the caller's objects before a call and after it
Before == [the_vec |-> the_vec, out |-> out, outputs_1 |-> outputs_1]

After == [the_vec |-> the_vec', out |-> out', outputs_1 |-> outputs_1']

\* ToStorage<outputs_2_t>(value, null ? nullptr : &the_vec)
CallToStorage(foo, null, garbage) ==
    LET r == ToStoragePtr([foo |-> foo], IF null THEN Null ELSE Ptr(the_vec))
    IN  /\ the_vec' = CASE r.outcome = "ok" -> r.vec
                        [] r.outcome = "abort" -> the_vec
                        [] OTHER -> garbage
        /\ UNCHANGED <<out, outputs_1, gen>>
        /\ sto' = [op |-> "ToStoragePtr", null |-> null, outcome |-> r.outcome,
                   wrote |-> After # Before]
        /\ UNCHANGED <<calibration_, image_size_, cam, is_valid, approx, lie, thr,
                       pose2, lcm>>

\* FromStorage(elements, null ? nullptr : &out)
CallFromStorage(elements, null, garbage) ==
    LET r == FromStoragePtr(elements, IF null THEN Null ELSE Ptr(out))
    IN  /\ null \/ Len(elements) >= 1
        /\ out' = CASE r.outcome = "ok" -> r.out
                    [] r.outcome = "abort" -> out
                    [] OTHER -> [foo |-> garbage]
        /\ UNCHANGED <<the_vec, outputs_1, gen>>
        /\ sto' = [op |-> "FromStoragePtr", null |-> null, outcome |-> r.outcome,
                   wrote |-> After # Before]
        /\ UNCHANGED <<calibration_, image_size_, cam, is_valid, approx, lie, thr,
                       pose2, lcm>>

\* CodegenMultiFunctionTest1(inputs, null ? nullptr : &outputs_1)
CallCodegenMultiFunctionTest1(_inputs, null, garbage) ==
    LET r == CodegenMultiFunctionTest1(_inputs,
                                       IF null THEN Null ELSE Ptr(outputs_1))
    IN  /\ outputs_1' = CASE r.outcome = "ok" -> r.outputs_1
                          [] r.outcome = "abort" -> outputs_1
                          [] OTHER -> garbage
        /\ UNCHANGED <<the_vec, out, sto>>
        /\ gen' = [op |-> "CodegenMultiFunctionTest1", inputs |-> _inputs,
                   null |-> null, outcome |-> r.outcome,
                   wrote |-> After # Before]
        /\ UNCHANGED <<calibration_, image_size_, cam, is_valid, approx, lie, thr,
                       pose2, lcm>>

NextOutputs ==
    \/ \E x \in StoreValues, n \in BOOLEAN, g \in {<<>>, <<NaN>>} :
          CallToStorage(x, n, g)
    \/ \E e \in {the_vec} \cup Containers, n \in BOOLEAN, g \in {Zero, NaN} :
          CallFromStorage(e, n, g)
    \/ \E i \in InputArrays, n \in BOOLEAN, g \in Clobbered :
          CallCodegenMultiFunctionTest1(i, n, g)

SpecOutputs == Init /\ [][NextOutputs]_vars

\* the call recorded in r was stopped by its check and wrote nothing
FailedLoudly(r) ==
    /\ r.outcome = "abort"
    /\ ~r.wrote

\* C12: ToStorage<outputs_2_t> with a null vector, FromStorage with a null
\* out struct and CodegenMultiFunctionTest1 with a null outputs_1 each stop at
\* a fatal check, and no object of the caller has been written.
C12_NullOutputFailsLoudly ==
    /\ (sto.op \in {"ToStoragePtr", "FromStoragePtr"} /\ sto.null) => FailedLoudly(sto)
    /\ (gen.op = "CodegenMultiFunctionTest1" /\ gen.null) => FailedLoudly(gen)

\* after a successful call has filled outputs_1, a call with a null
\* outputs_1 aborts and leaves it as it was
C12_Witness ==
    /\ gen.op = "CodegenMultiFunctionTest1"
    /\ gen.null
    /\ gen.outcome = "abort"
    /\ gen.inputs[0] = R(-3)
    /\ outputs_1 = <<Dy(1, 2), Dy(17, 4) ++ One>>
    /\ sto.op = "FromStoragePtr" /\ ~sto.null /\ out.foo = Half

\* ---------------------------------------------------------------------------
\* Concurrent calls on one Camera (camera.h:33-76)
\* ---------------------------------------------------------------------------

\* number of threads calling into the Camera
NumThreads == 2

Threads == 1 .. NumThreads

InFramePixel == <<R(0), R(0)>>

OutOfFramePixel == <<R(700), R(10)>>

\* the calls a thread may make; every thread has a validity cell of its own
ThreadCalls ==
    {[op |-> "PixelFromCameraPoint", pixel |-> p, cal_valid |-> v, null |-> n] :
        p \in {InFramePixel, OutOfFramePixel}, v \in {1}, n \in BOOLEAN}
    \cup {[op |-> "CameraRayFromPixel", pixel |-> OutOfFramePixel, cal_valid |-> v,
           null |-> FALSE] : v \in CalValidity}
    \cup {[op |-> "MaybeCheckInView", pixel |-> OutOfFramePixel, cal_valid |-> 1,
           null |-> TRUE]}
    \cup {[op |-> "InView", pixel |-> InFramePixel, cal_valid |-> 1, null |-> TRUE]}

\* what the calibration returns for a call: the pixel or the ray
CalibrationResult(call) ==
    IF call.op = "PixelFromCameraPoint" THEN call.pixel ELSE <<R(1), Dy(-1, 1), R(1)>>

\* a thread about to make `call`: `cell` is the scalar its is_valid points to,
\* `size` its copy of image_size_ once read, `ret` the value returned
Started(call) ==
    [pc |-> "start", call |-> call, cell |-> R(7), size |-> <<0, 0>>, ret |-> <<>>]

InitThreads ==
    /\ calibration_ \in Calibrations
    /\ image_size_ \in {DefaultImageSize, <<640, 480>>}
    /\ cam = [op |-> "constructed", calibration |-> calibration_,
              image_size |-> image_size_]
    /\ is_valid = R(7)
    /\ InitStorage
    /\ approx = NoCall
    /\ lie = NoCall
    /\ gen = NoCall
    /\ pose2 = NoCall
    /\ lcm = NoCall
    /\ thr \in [Threads -> {Started(c) : c \in ThreadCalls}]

notThreads == <<cam, is_valid, approx, the_vec, out, sto, lie, outputs_1, gen, pose2, lcm>>

\* camera.h:34 and 53: calibration_.PixelFromCameraPoint / CameraRayFromPixel
\* reads calibration_, returns the pixel or ray and stores its validity
\* through is_valid when that is not null
Calibrate(t) ==
    /\ thr[t].pc = "start"
    /\ thr[t].call.op \in {"PixelFromCameraPoint", "CameraRayFromPixel"}
    /\ thr' = [thr EXCEPT ![t].ret = CalibrationResult(thr[t].call),
                          ![t].cell = IF thr[t].call.null THEN @
                                      ELSE R(thr[t].call.cal_valid),
                          ![t].pc = IF thr[t].call.null THEN "done" ELSE "check"]
    /\ UNCHANGED <<calibration_, image_size_>>
    /\ UNCHANGED notThreads

\* MaybeCheckInView storing a default in the Camera when the image size is
\* unset, instead of only reading image_size_
ReadImageSizeStoringDefault(t) ==
    /\ \/ thr[t].pc = "check"
       \/ thr[t].pc = "start" /\ thr[t].call.op = "MaybeCheckInView"
    /\ thr' = [thr EXCEPT ![t].size = image_size_,
                          ![t].pc = IF thr[t].pc = "check" THEN "fold" ELSE "return"]
    /\ image_size_' = IF image_size_[1] <= 0 \/ image_size_[2] <= 0 THEN <<1, 1>>
                      ELSE image_size_
    /\ UNCHANGED calibration_
    /\ UNCHANGED notThreads

\* camera.h:61: MaybeCheckInView reads image_size_
ReadImageSize(t) ==
    /\ \/ thr[t].pc = "check"
       \/ thr[t].pc = "start" /\ thr[t].call.op = "MaybeCheckInView"
    /\ thr' = [thr EXCEPT ![t].size = image_size_,
                          ![t].pc = IF thr[t].pc = "check" THEN "fold" ELSE "return"]
    /\ UNCHANGED <<calibration_, image_size_>>
    /\ UNCHANGED notThreads

\* camera.h:36 and 55: *is_valid *= MaybeCheckInView(pixel)
FoldValidity(t) ==
    /\ thr[t].pc = "fold"
    /\ thr' = [thr EXCEPT ![t].cell = @ ** MaybeCheckInView(thr[t].size, thr[t].call.pixel),
                          ![t].pc = "done"]
    /\ UNCHANGED <<calibration_, image_size_>>
    /\ UNCHANGED notThreads

\* camera.h:60-66 called directly: the value MaybeCheckInView returns
ReturnCheck(t) ==
    /\ thr[t].pc = "return"
    /\ thr' = [thr EXCEPT ![t].ret = MaybeCheckInView(thr[t].size, thr[t].call.pixel),
                          ![t].pc = "done"]
    /\ UNCHANGED <<calibration_, image_size_>>
    /\ UNCHANGED notThreads

\* camera.h:72-76: the static InView reads only its arguments
StaticInView(t) ==
    /\ thr[t].pc = "start" /\ thr[t].call.op = "InView"
    /\ thr' = [thr EXCEPT ![t].ret = InView(thr[t].call.pixel, <<640, 480>>),
                          ![t].pc = "done"]
    /\ UNCHANGED <<calibration_, image_size_>>
    /\ UNCHANGED notThreads

NextThreads ==
    \/ \E t \in Threads : Calibrate(t)
    \/ \E t \in Threads : ReadImageSize(t)
    \/ \E t \in Threads : FoldValidity(t)
    \/ \E t \in Threads : ReturnCheck(t)
    \/ \E t \in Threads : StaticInView(t)

SpecThreads == InitThreads /\ [][NextThreads]_vars

\* what `call` returns and leaves in its validity cell when it runs alone on
\* the Camera as constructed
Alone(call) ==
    CASE call.op \in {"PixelFromCameraPoint", "CameraRayFromPixel"} ->
            [ret |-> CalibrationResult(call),
             cell |-> IF call.null THEN R(7)
                      ELSE ComposeValidity(cam.image_size, call.cal_valid, call.pixel)]
      [] call.op = "MaybeCheckInView" ->
            [ret |-> MaybeCheckInView(cam.image_size, call.pixel), cell |-> R(7)]
      [] call.op = "InView" ->
            [ret |-> InView(call.pixel, <<640, 480>>), cell |-> R(7)]

\* C13: the four Camera operations never modify the stored calibration or
\* image size, and under any interleaving of concurrent calls with distinct
\* validity outputs each finished call has returned, and left in its validity
\* cell, what it would have when run alone.
C13_ConcurrentCallsArePure ==
    /\ calibration_ = cam.calibration
    /\ image_size_ = cam.image_size
    /\ \A t \in Threads :
          thr[t].pc = "done" =>
              /\ thr[t].ret = Alone(thr[t].call).ret
              /\ thr[t].cell = Alone(thr[t].call).cell

\* thread 1 has finished a projection that left the frame while thread 2 is
\* between its read of image_size_ and its write of its own validity cell
C13_Witness ==
    /\ image_size_ = <<640, 480>>
    /\ thr[1].pc = "done"
    /\ thr[1].call.op = "PixelFromCameraPoint"
    /\ thr[1].call.pixel = OutOfFramePixel
    /\ thr[1].cell = Zero
    /\ thr[2].pc = "fold"
    /\ thr[2].call.op = "CameraRayFromPixel"
    /\ thr[2].cell = One

\* ---------------------------------------------------------------------------
\* sym::Pose2 (pose2.cc): storage _self = [c, s, tx, ty], indexed from 0
\* ---------------------------------------------------------------------------

\* Pose2::ComposeWithPoint
ComposeWithPoint(_self, right) ==
    LET _res == [i \in 0 .. 1 |->
            CASE i = 0 -> ((_self[0] ** right[0]) -- (_self[1] ** right[1])) ++ _self[2]
              [] i = 1 -> ((_self[0] ** right[1]) ++ (_self[1] ** right[0])) ++ _self[3]]
    IN  _res

\* InverseCompose with the last term of the second row added, not subtracted
InverseComposeSignSlip(_self, point) ==
    LET _res == [i \in 0 .. 1 |->
            CASE i = 0 -> (((Neg(_self[0]) ** _self[2]) ++ (_self[0] ** point[0]))
                           -- (_self[1] ** _self[3])) ++ (_self[1] ** point[1])
              [] i = 1 -> (((Neg(_self[0]) ** _self[3]) ++ (_self[0] ** point[1]))
                           ++ (_self[1] ** _self[2])) ++ (_self[1] ** point[0])]
    IN  _res

\* Pose2::InverseCompose
InverseCompose(_self, point) ==
    LET _res == [i \in 0 .. 1 |->
            CASE i = 0 -> (((Neg(_self[0]) ** _self[2]) ++ (_self[0] ** point[0]))
                           -- (_self[1] ** _self[3])) ++ (_self[1] ** point[1])
              [] i = 1 -> (((Neg(_self[0]) ** _self[3]) ++ (_self[0] ** point[1]))
                           ++ (_self[1] ** _self[2])) -- (_self[1] ** point[0])]
    IN  _res

\* Pose2::ToHomogenousMatrix: _res(i, j) at <<i, j>>
ToHomogenousMatrix(_self) ==
    LET _res == [ij \in (0 .. 2) \X (0 .. 2) |->
            CASE ij = <<0, 0>> -> _self[0]
              [] ij = <<1, 0>> -> _self[1]
              [] ij = <<2, 0>> -> R(0)
              [] ij = <<0, 1>> -> Neg(_self[1])
              [] ij = <<1, 1>> -> _self[0]
              [] ij = <<2, 1>> -> R(0)
              [] ij = <<0, 2>> -> _self[2]
              [] ij = <<1, 2>> -> _self[3]
              [] ij = <<2, 2>> -> R(1)]
    IN  _res

\* stored poses: unit-norm rotations, and rotations that are not normalised
Pose2Rotations ==
    {<<One, Zero>>, <<Zero, One>>, <<R(-1), Zero>>, <<Zero, R(-1)>>,
     <<Half, Half>>, <<R(2), Zero>>, <<One, One>>, <<Zero, Zero>>, <<Dy(3, 2), R(-2)>>}

Pose2Positions == {<<Zero, Zero>>, <<One, Neg(Half)>>, <<R(3), R(2)>>}

Pose2s == {V(<<r[1], r[2], t[1], t[2]>>) : r \in Pose2Rotations, t \in Pose2Positions}

Points == {V(<<Zero, Zero>>), V(<<One, Zero>>), V(<<R(-2), Half>>), V(<<R(3), R(5)>>)}

InitPose2 ==
    /\ InitCamera
    /\ InitStorage
    /\ approx = NoCall
    /\ lie = NoCall
    /\ gen = NoCall
    /\ thr = NoCall
    /\ lcm = NoCall
    /\ pose2 \in {[op |-> "pending", self |-> a, point |-> q] : a \in Pose2s, q \in Points}

notPose2 == <<calibration_, image_size_, cam, is_valid, approx, the_vec, out, sto,
              lie, outputs_1, gen, thr, lcm>>

\* res = self.ComposeWithPoint(point)
CallComposeWithPoint ==
    /\ pose2.op = "pending"
    /\ pose2' = [op |-> "ComposeWithPoint", self |-> pose2.self, point |-> pose2.point,
                 res |-> ComposeWithPoint(pose2.self, pose2.point)]
    /\ UNCHANGED notPose2

\* res = self.InverseCompose(q), q the drawn point or the point just composed
CallInverseCompose ==
    /\ pose2.op \in {"pending", "ComposeWithPoint"}
    /\ LET q == IF pose2.op = "pending" THEN pose2.point ELSE pose2.res
       IN  pose2' = [op |-> "InverseCompose", self |-> pose2.self,
                     point |-> pose2.point, composed |-> pose2.op = "ComposeWithPoint",
                     arg |-> q, res |-> InverseCompose(pose2.self, q)]
    /\ UNCHANGED notPose2

\* res = self.ToHomogenousMatrix()
CallToHomogenousMatrix ==
    /\ pose2.op = "pending"
    /\ pose2' = [op |-> "ToHomogenousMatrix", self |-> pose2.self, point |-> pose2.point,
                 res |-> ToHomogenousMatrix(pose2.self)]
    /\ UNCHANGED notPose2

NextPose2 ==
    \/ CallComposeWithPoint
    \/ CallInverseCompose
    \/ CallToHomogenousMatrix

SpecPose2 == InitPose2 /\ [][NextPose2]_vars

\* c^2 + s^2 of a stored pose
RotationNormSq(_self) == (_self[0] ** _self[0]) ++ (_self[1] ** _self[1])

\* rows 0 and 1 of the 3x3 matrix m applied to (p.x, p.y, 1)
ApplyHomogenous(m, q) ==
    [i \in 0 .. 1 |-> ((m[<<i, 0>>] ** q[0]) ++ (m[<<i, 1>>] ** q[1])) ++ m[<<i, 2>>]]

\* C15: InverseCompose(ComposeWithPoint(p)) = (c^2 + s^2) * p for every stored
\* pose and point, so it is p when the rotation is unit-norm and, for p # 0, a
\* different point when it is not; and ComposeWithPoint(p) is the first two
\* rows of ToHomogenousMatrix() applied to (p.x, p.y, 1).
C15_Pose2PointTransforms ==
    /\ (pose2.op = "InverseCompose" /\ pose2.composed) =>
          LET n == RotationNormSq(pose2.self)
          IN  /\ \A i \in 0 .. 1 : pose2.res[i] = n ** pose2.point[i]
              /\ n = One => pose2.res = pose2.point
              /\ (n # One /\ pose2.point # V(<<Zero, Zero>>)) => pose2.res # pose2.point
    /\ pose2.op = "ComposeWithPoint" =>
          pose2.res = ApplyHomogenous(ToHomogenousMatrix(pose2.self), pose2.point)

\* a pose with rotation (1/2, 1/2) returns half of the point (3, 5)
C15_Witness ==
    /\ pose2.op = "InverseCompose"
    /\ pose2.composed
    /\ pose2.self = V(<<Half, Half, R(3), R(2)>>)
    /\ pose2.point = V(<<R(3), R(5)>>)
    /\ pose2.arg = V(<<R(2), R(6)>>)
    /\ pose2.res = V(<<Dy(3, 1), Dy(5, 1)>>)

\* ---------------------------------------------------------------------------
\* states_t encode / decode (states_t.hpp:123-155)
\* ---------------------------------------------------------------------------

\* bytes of the int64 fingerprint (states_t.hpp:154)
FingerprintSize == 8

\* bytes ::eigen_lcm::Vector2d encodes to: two doubles
PayloadSize == 16

\* states_t::getHash(): the fingerprint of the type, and another type's
getHash == "fingerprint of states_t"

OtherHash == "fingerprint of another type"

\* the negative values a failing step may return
ErrorCodes == {-1, -2}

\* __int64_t_encode_array(buf, offset, maxlen, &hash, 1): the bytes written, or
\* `code` when maxlen is too small
Int64EncodeArray(maxlen, code) == IF maxlen < FingerprintSize THEN code ELSE FingerprintSize

\* __int64_t_decode_array(buf, offset, maxlen, &msg_hash, 1)
Int64DecodeArray(maxlen, code) == IF maxlen < FingerprintSize THEN code ELSE FingerprintSize

\* ::eigen_lcm::Vector2d::_encodeNoHash / _decodeNoHash / _getEncodedSizeNoHash
VectorEncodeNoHash(maxlen, code) == IF maxlen < PayloadSize THEN code ELSE PayloadSize

VectorDecodeNoHash(maxlen, code) == IF maxlen < PayloadSize THEN code ELSE PayloadSize

VectorEncodedSizeNoHash == PayloadSize

\* states_t::_encodeNoHash, _decodeNoHash, _getEncodedSizeNoHash
EncodeNoHash(maxlen, code) ==
    LET pos == 0
        tlen == VectorEncodeNoHash(maxlen - pos, code)
    IN  IF tlen < 0 THEN tlen ELSE pos + tlen

DecodeNoHash(maxlen, code) ==
    LET pos == 0
        tlen == VectorDecodeNoHash(maxlen - pos, code)
    IN  IF tlen < 0 THEN tlen ELSE pos + tlen

GetEncodedSizeNoHash == 0 + VectorEncodedSizeNoHash

\* states_t::getEncodedSize
getEncodedSize == FingerprintSize + GetEncodedSizeNoHash

\* states_t::encode: `fail1`, `fail2` are what the two steps return if they fail
encode(maxlen, fail1, fail2) ==
    LET pos0 == 0
        tlen1 == Int64EncodeArray(maxlen - pos0, fail1)
        pos1 == pos0 + tlen1
        tlen2 == EncodeNoHash(maxlen - pos1, fail2)
    IN  IF tlen1 < 0 THEN [ret |-> tlen1, steps |-> <<"fingerprint">>]
        ELSE IF tlen2 < 0 THEN [ret |-> tlen2, steps |-> <<"fingerprint", "payload">>]
        ELSE [ret |-> pos1 + tlen2, steps |-> <<"fingerprint", "payload">>]

\* decode with the fingerprint compared only after the payload is decoded
decodeCompareLate(msg_hash, maxlen, fail1, fail2) ==
    LET pos0 == 0
        thislen1 == Int64DecodeArray(maxlen - pos0, fail1)
        pos1 == pos0 + thislen1
        thislen2 == DecodeNoHash(maxlen - pos1, fail2)
    IN  IF thislen1 < 0 THEN [ret |-> thislen1, steps |-> <<"fingerprint">>]
        ELSE IF thislen2 < 0
        THEN [ret |-> thislen2, steps |-> <<"fingerprint", "payload">>]
        ELSE IF msg_hash # getHash
        THEN [ret |-> -1, steps |-> <<"fingerprint", "payload", "compare">>]
        ELSE [ret |-> pos1 + thislen2, steps |-> <<"fingerprint", "payload", "compare">>]

\* states_t::decode: msg_hash is the fingerprint the buffer holds
decode(msg_hash, maxlen, fail1, fail2) ==
    LET pos0 == 0
        thislen1 == Int64DecodeArray(maxlen - pos0, fail1)
        pos1 == pos0 + thislen1
        thislen2 == DecodeNoHash(maxlen - pos1, fail2)
    IN  IF thislen1 < 0 THEN [ret |-> thislen1, steps |-> <<"fingerprint">>]
        ELSE IF msg_hash # getHash
        THEN [ret |-> -1, steps |-> <<"fingerprint", "compare">>]
        ELSE IF thislen2 < 0
        THEN [ret |-> thislen2, steps |-> <<"fingerprint", "compare", "payload">>]
        ELSE [ret |-> pos1 + thislen2, steps |-> <<"fingerprint", "compare", "payload">>]

\* buffer lengths around the two boundaries
MaxLens ==
    {0, FingerprintSize - 1, FingerprintSize, FingerprintSize + PayloadSize - 1,
     FingerprintSize + PayloadSize, FingerprintSize + PayloadSize + 8}

LcmCalls ==
    {[op |-> "pending", fn |-> f, msg_hash |-> h, maxlen |-> n, fail1 |-> c1,
      fail2 |-> c2] :
        f \in {"encode", "decode"}, h \in {getHash, OtherHash}, n \in MaxLens,
        c1 \in ErrorCodes, c2 \in ErrorCodes}

InitLcm ==
    /\ InitCamera
    /\ InitStorage
    /\ approx = NoCall
    /\ lie = NoCall
    /\ gen = NoCall
    /\ thr = NoCall
    /\ pose2 = NoCall
    /\ lcm \in LcmCalls

notLcm == <<calibration_, image_size_, cam, is_valid, approx, the_vec, out, sto, lie,
            outputs_1, gen, thr, pose2>>

CallEncode ==
    /\ lcm.op = "pending" /\ lcm.fn = "encode"
    /\ LET r == encode(lcm.maxlen, lcm.fail1, lcm.fail2)
       IN  lcm' = [lcm EXCEPT !.op = "encode"] @@ r
    /\ UNCHANGED notLcm

CallDecode ==
    /\ lcm.op = "pending" /\ lcm.fn = "decode"
    /\ LET r == decode(lcm.msg_hash, lcm.maxlen, lcm.fail1, lcm.fail2)
       IN  lcm' = [lcm EXCEPT !.op = "decode"] @@ r
    /\ UNCHANGED notLcm

NextLcm ==
    \/ CallEncode
    \/ CallDecode

SpecLcm == InitLcm /\ [][NextLcm]_vars

\* the step named was run
Ran(step) == \E i \in DOMAIN lcm.steps : lcm.steps[i] = step

\* C16: decode returns the fingerprint step's negative code if the 8-byte read
\* fails; else -1, without decoding the payload, if the fingerprint is not
\* getHash(); else the payload step's negative code if that fails; else
\* fingerprint bytes plus payload bytes.  encode returns the first failing
\* step's negative code, or the bytes written, which is getEncodedSize() =
\* 8 + payload size.
C16_EncodeDecodeOrder ==
    /\ lcm.op = "decode" =>
          IF lcm.maxlen < 8 THEN lcm.ret = lcm.fail1 /\ ~Ran("compare") /\ ~Ran("payload")
          ELSE IF lcm.msg_hash # getHash THEN lcm.ret = -1 /\ ~Ran("payload")
          ELSE IF lcm.maxlen - 8 < PayloadSize THEN lcm.ret = lcm.fail2
          ELSE lcm.ret = 8 + PayloadSize
    /\ lcm.op = "encode" =>
          IF lcm.maxlen < 8 THEN lcm.ret = lcm.fail1 /\ ~Ran("payload")
          ELSE IF lcm.maxlen - 8 < PayloadSize THEN lcm.ret = lcm.fail2
          ELSE lcm.ret = getEncodedSize /\ getEncodedSize = 8 + PayloadSize
    /\ lcm.op \in {"encode", "decode"} =>
          (lcm.ret < 0 <=> (lcm.maxlen < 8 + PayloadSize
                            \/ (lcm.op = "decode" /\ lcm.msg_hash # getHash)))

\* a buffer long enough but holding another type's fingerprint: -1, and the
\* payload is not decoded
C16_Witness ==
    /\ lcm.op = "decode"
    /\ lcm.msg_hash = OtherHash
    /\ lcm.maxlen = FingerprintSize + PayloadSize
    /\ lcm.fail2 = -2
    /\ lcm.ret = -1
    /\ lcm.steps = <<"fingerprint", "compare">>

====
